---- MODULE Spec2Model ----
(***************************************************************************)
(* Model of the receipt reconciliation core of workers-receipt-parser:     *)
(* ReceiptCalculator.calculateDiscrepancy and ReceiptValidator.validate.   *)
(*                                                                         *)
(* Numbers.  Monetary values are exact decimals counted in thousandths     *)
(* (1000 = one currency unit), so that toFixed(2) is a real rounding.      *)
(* Binary floating-point representation error is outside the model.        *)
(* Time is counted in whole years.                                         *)
(*                                                                         *)
(* Values.  A JavaScript value that may be missing is a record with a      *)
(* kind field k: "undefined", "null", or the kind of the present value.    *)
(***************************************************************************)
EXTENDS Integers, Sequences, FiniteSets, TLC

VARIABLES pc, input, before, rec, ncalc, now, prev, last,
          request, retries, calls, response,
          env, authRequest, authPc, invoked, authResponse,
          imagePc, storage, upload, uuids, imagePath,
          retryPc, attempts, delays, outcome

vars == <<pc, input, before, rec, ncalc, now, prev, last,
          request, retries, calls, response,
          env, authRequest, authPc, invoked, authResponse,
          imagePc, storage, upload, uuids, imagePath,
          retryPc, attempts, delays, outcome>>

\* the state of a request to the Parse endpoint
handlerVars == <<request, retries, calls, response>>

\* the state of a request on its way through the middleware of the app
authVars == <<env, authRequest, authPc, invoked, authResponse>>

\* the state of an image on its way into the object storage
imageVars == <<imagePc, storage, upload, uuids, imagePath>>

\* the state of a call of retryOperation, next to its parameter retries
retryVars == <<retryPc, attempts, delays, outcome>>

\* the state of the services around the reconciliation core
serviceVars == <<authVars, imageVars, retryVars>>

(***************************************************************************)
(* Bounds of the model                                                     *)
(***************************************************************************)
MaxItems == 2
MaxMethods == 2
MaxCharges == 1
MaxCalls == 2
MaxTicks == 1
MaxUuids == 2

(***************************************************************************)
(* JavaScript values                                                       *)
(***************************************************************************)
Undef == [k |-> "undefined", n |-> 0]
Null == [k |-> "null", n |-> 0]
Num(v) == [k |-> "number", n |-> v]

UndefStr == [k |-> "undefined", s |-> ""]
Str(s) == [k |-> "string", s |-> s]

UndefBool == [k |-> "undefined", b |-> FALSE]
Bool(b) == [k |-> "boolean", b |-> b]

UndefList == [k |-> "undefined", v |-> <<>>]
List(v) == [k |-> "array", v |-> v]

\* typeof x === "number"
IsNumber(x) == x.k = "number"

\* JavaScript truthiness of a number, string, boolean, array or object
Truthy(x) ==
    CASE x.k = "number" -> x.n # 0
      [] x.k = "string" -> x.s # ""
      [] x.k = "boolean" -> x.b
      [] x.k = "array" -> TRUE
      [] x.k = "object" -> TRUE
      [] OTHER -> FALSE

Abs(x) == IF x < 0 THEN -x ELSE x

Min(a, b) == IF a < b THEN a ELSE b

Max(a, b) == IF a > b THEN a ELSE b

\* one currency unit in thousandths
Unit == 10 * 100

\* Number.prototype.toFixed(2) read back as a number: x in thousandths,
\* rounded to the nearest hundredth, an exact half away from zero.
ToFixed2(x) == IF x < 0 THEN -(((-x + 5) \div 10) * 10) ELSE ((x + 5) \div 10) * 10

RECURSIVE SumSeq(_)
SumSeq(s) == IF s = <<>> THEN 0 ELSE s[1] + SumSeq(Tail(s))

\* the numeric value of x when typeof x === "number", else 0
NumberOrZero(x) == IF IsNumber(x) THEN x.n ELSE 0

(***************************************************************************)
(* ReceiptCalculator.calculateDiscrepancy                                  *)
(***************************************************************************)
calculatedTotal(r) ==
    SumSeq([i \in 1..Len(r.items.v) |-> NumberOrZero(r.items.v[i].total_price)])

taxAmount(r) == NumberOrZero(r.summary.taxes)

discountAmount(r) == NumberOrZero(r.summary.discounts)

serviceChargeAmount(r) == NumberOrZero(r.summary.service_charge)

otherChargesAmount(r) ==
    IF r.summary.other_charges.k = "array"
    THEN SumSeq([i \in 1..Len(r.summary.other_charges.v) |->
                    NumberOrZero(r.summary.other_charges.v[i].amount)])
    ELSE 0

\* an expected total "with service charge" that forgets the service charge
expectedTotalWithServiceCharge_NoServiceCharge(r) ==
    calculatedTotal(r) + taxAmount(r) + otherChargesAmount(r) - discountAmount(r)

expectedTotalWithServiceCharge(r) ==
    calculatedTotal(r) + taxAmount(r) + serviceChargeAmount(r)
        + otherChargesAmount(r) - discountAmount(r)

\* an expected total that leaves the other charges out
expectedTotalWithoutServiceCharge_NoOtherCharges(r) ==
    calculatedTotal(r) + taxAmount(r) - discountAmount(r)

expectedTotalWithoutServiceCharge(r) ==
    calculatedTotal(r) + taxAmount(r) + otherChargesAmount(r) - discountAmount(r)

discrepancyWithServiceCharge(r) ==
    ToFixed2(r.summary.total.n - expectedTotalWithServiceCharge(r))

\* a discrepancy computed on top of the discrepancy the record already carries
discrepancyWithoutServiceCharge_Accumulating(r) ==
    ToFixed2(r.summary.total.n - expectedTotalWithoutServiceCharge(r)
                - (IF IsNumber(r.summary.discrepancy) THEN r.summary.discrepancy.n ELSE 0))

discrepancyWithoutServiceCharge(r) ==
    ToFixed2(r.summary.total.n - expectedTotalWithoutServiceCharge(r))

\* an inference that takes a tie as "included"
isServiceChargeIncluded_TieIncluded(r) ==
    Abs(discrepancyWithServiceCharge(r)) <= Abs(discrepancyWithoutServiceCharge(r))

isServiceChargeIncluded(r) ==
    Abs(discrepancyWithServiceCharge(r)) < Abs(discrepancyWithoutServiceCharge(r))

\* a guard that does not look at the type of summary.total
CalculatorSkips_NoTotalCheck(r) ==
    \/ ~Truthy(r.items)
    \/ ~Truthy(r.summary)

\* the guard of the early return: items or summary missing, total not a number
CalculatorSkips(r) ==
    \/ ~Truthy(r.items)
    \/ ~Truthy(r.summary)
    \/ ~IsNumber(r.summary.total)

calculateDiscrepancy(r) ==
    IF CalculatorSkips(r)
    THEN r
    ELSE [r EXCEPT
            !.summary.discrepancy =
                Num(IF isServiceChargeIncluded(r)
                    THEN discrepancyWithServiceCharge(r)
                    ELSE discrepancyWithoutServiceCharge(r)),
            !.summary.service_charge_included = Bool(isServiceChargeIncluded(r))]

\* a calculator that assigns the two fields to its argument in place
argumentAfterCall_InPlace(r) == calculateDiscrepancy(r)

\* The argument object as the call leaves it: the result is built from
\* spread copies, nothing is assigned to the argument.
argumentAfterCall(r) == r

(***************************************************************************)
(* ValidationTypes: severities, issue types, issues and their messages     *)
(***************************************************************************)
ValidationSeverity ==
    [ERROR |-> "error", WARNING |-> "warning", INFO |-> "info", FATAL |-> "fatal"]

ValidationIssueTypes ==
    [TIMESTAMP_FUTURE |-> "timestamp_future",
     TIMESTAMP_TOO_OLD |-> "timestamp_too_old",
     TIMESTAMP_INVALID |-> "timestamp_invalid",
     UNUSUAL_TAX_RATE |-> "unusual_tax_rate",
     ITEMS_SUBTOTAL_MISMATCH |-> "items_subtotal_mismatch",
     INVALID_CURRENCY_CODE |-> "invalid_currency_code",
     SUSPICIOUS_RECEIPT_NUMBER |-> "suspicious_receipt_number",
     ITEM_PRICE_CALCULATION |-> "item_price_calculation",
     PAYMENT_METHODS_MISMATCH |-> "payment_methods_mismatch",
     EMPTY_STORE_NAME |-> "empty_store_name",
     EMPTY_STORE_ADDRESS |-> "empty_store_address",
     DUPLICATE_ITEMS |-> "duplicate_items",
     TIMESTAMP_FORMAT |-> "timestamp_format",
     SUMMARY_CALCULATION_ERROR |-> "summary_calculation_error",
     NEGATIVE_AMOUNT |-> "negative_amount",
     CARD_NUMBER_FORMAT |-> "card_number_format",
     DISCREPANCY_EXPLANATION |-> "discrepancy_explanation",
     SERVICE_CHARGE_CALCULATION |-> "service_charge_calculation",
     TOTAL_TOO_SMALL |-> "total_too_small"]

\* A message is the sequence of the pieces of its template literal: literal
\* text, an interpolated integer, or a number formatted by toFixed(d), kept
\* as the integer count n of 10^-d (toFixed(2) of 12.5 is n = 1250, d = 2).
Txt(s) == [t |-> "text", s |-> s, n |-> 0, d |-> 0]

IntTok(n) == [t |-> "int", s |-> "", n |-> n, d |-> 0]

\* x.toFixed(2) for x in thousandths
Fixed2(x) == [t |-> "fixed", s |-> "", n |-> ToFixed2(x) \div 10, d |-> 2]

Issue(type, message, severity) ==
    [type |-> type, message |-> message, severity |-> severity]

(***************************************************************************)
(* Strings of the model and what the code's string operations do on them   *)
(***************************************************************************)
\* new Date(s): the year of a parsable text, NaN (Invalid Date) otherwise.
\* The constructor never throws for a string argument.
NaN == [nan |-> TRUE, t |-> 0]

Time(t) == [nan |-> FALSE, t |-> t]

DateParse(s) ==
    CASE s = "2014-03-01T10:00:00+07:00" -> Time(2014)
      [] s = "2015-03-01T10:00:00Z" -> Time(2015)
      [] s = "2025-03-01T10:00:00.250+07:00" -> Time(2025)
      [] s = "2026-03-01T10:00:00Z" -> Time(2026)
      [] s = "2027-03-01T10:00:00+07:00" -> Time(2027)
      [] s = "2026-03-01" -> Time(2026)
      [] s = "March 1, 2015 10:00:00" -> Time(2015)
      [] OTHER -> NaN

\* whether the try block of validateTimestamp throws: new Date(string),
\* the comparisons of Date objects and setFullYear never throw
DateThrows(s) == FALSE

\* /^\d{4}-\d{2}-\d{2}T\d{2}:\d{2}:\d{2}(?:\.\d+)?(?:Z|[+-]\d{2}:\d{2})$/
isoDatePattern(s) ==
    s \in {"2014-03-01T10:00:00+07:00", "2015-03-01T10:00:00Z",
           "2025-03-01T10:00:00.250+07:00", "2026-03-01T10:00:00Z",
           "2027-03-01T10:00:00+07:00", "2026-13-45T99:99:99Z"}

TimestampTexts ==
    {"2014-03-01T10:00:00+07:00", "2015-03-01T10:00:00Z",
     "2025-03-01T10:00:00.250+07:00", "2026-03-01T10:00:00Z",
     "2027-03-01T10:00:00+07:00", "2026-03-01", "March 1, 2015 10:00:00",
     "2026-13-45T99:99:99Z", "kemarin sore", ""}

\* /^[A-Z]{3}$/
CurrencyPattern(s) == s \in {"IDR", "USD"}

CurrencyTexts == {"IDR", "USD", "Rp", "idr", ""}

\* /^[A-Za-z0-9\-\/\.]+$/
ReceiptNumberPattern(s) == s \in {"INV-2025/001.A", "0042"}

ReceiptNumberTexts == {"INV-2025/001.A", "0042", "INV#001", "No 42", ""}

\* String.prototype.trim
Trim(s) ==
    CASE s = "  " -> ""
      [] s = " Toko Maju " -> "Toko Maju"
      [] s = "Nasi Goreng " -> "Nasi Goreng"
      [] s = " es teh" -> "es teh"
      [] OTHER -> s

\* String.prototype.toLowerCase
ToLowerCase(s) ==
    CASE s = "Nasi Goreng" -> "nasi goreng"
      [] s = "NASI GORENG" -> "nasi goreng"
      [] s = "Nasi Goreng " -> "nasi goreng "
      [] s = "Es Teh" -> "es teh"
      [] s = "Cola 1.5L" -> "cola 1.5l"
      [] s = "Air 0.6L x 1.50" -> "air 0.6l x 1.50"
      [] OTHER -> s

\* the matches of /(\d+\.\d+)/g inside a text, in hundredths
DecimalsInText(s) ==
    CASE s \in {"Cola 1.5L", "cola 1.5l"} -> <<150>>
      [] s \in {"Air 0.6L x 1.50", "air 0.6l x 1.50"} -> <<60, 150>>
      [] OTHER -> <<>>

\* /^\d{4}$/
FourDigitPattern(s) == s \in {"1234", "0007"}

cardMethods == {"Credit Card", "Debit Card"}

\* `${x}` for a value that is a string, undefined or null
Interpolate(x) == IF x.k = "string" THEN x.s ELSE x.k

(***************************************************************************)
(* ReceiptValidator: the rule checks, each the issues it pushes            *)
(***************************************************************************)
TenYears == 10

\* a timestamp check that reports an old timestamp as TIMESTAMP_INVALID
validateTimestamp_OldAsInvalid(r, clock) ==
    IF ~Truthy(r.header) \/ ~Truthy(r.header.timestamp)
    THEN <<>>
    ELSE LET timestamp == DateParse(r.header.timestamp.s)
         IN (IF ~timestamp.nan /\ timestamp.t > clock
             THEN <<Issue(ValidationIssueTypes.TIMESTAMP_FUTURE,
                          <<Txt("Receipt timestamp is in the future")>>,
                          ValidationSeverity.WARNING)>>
             ELSE <<>>)
            \o
            (IF ~timestamp.nan /\ timestamp.t < clock - TenYears
             THEN <<Issue(ValidationIssueTypes.TIMESTAMP_INVALID,
                          <<Txt("Receipt timestamp is invalid")>>,
                          ValidationSeverity.ERROR)>>
             ELSE <<>>)

validateTimestamp(r, clock) ==
    IF ~Truthy(r.header) \/ ~Truthy(r.header.timestamp)
    THEN <<>>
    ELSE IF DateThrows(r.header.timestamp.s)
    THEN <<Issue(ValidationIssueTypes.TIMESTAMP_INVALID,
                 <<Txt("Receipt timestamp is invalid")>>,
                 ValidationSeverity.ERROR)>>
    ELSE LET timestamp == DateParse(r.header.timestamp.s)
             tenYearsAgo == clock - TenYears
         IN (IF ~timestamp.nan /\ timestamp.t > clock
             THEN <<Issue(ValidationIssueTypes.TIMESTAMP_FUTURE,
                          <<Txt("Receipt timestamp is in the future")>>,
                          ValidationSeverity.WARNING)>>
             ELSE <<>>)
            \o
            (IF ~timestamp.nan /\ timestamp.t < tenYearsAgo
             THEN <<Issue(ValidationIssueTypes.TIMESTAMP_TOO_OLD,
                          <<Txt("Receipt timestamp is unusually old (>10 years)")>>,
                          ValidationSeverity.WARNING)>>
             ELSE <<>>)

commonTaxRates == {0, 5, 7, 10, 11, 12, 15, 18, 20, 21, 22, 25}

\* Math.round(a / b) for b # 0: the nearest integer, a half towards +infinity
RoundDiv(a, b) ==
    IF b > 0 THEN (2 * a + b) \div (2 * b) ELSE (2 * (-a) + (-b)) \div (2 * (-b))

validateTaxCalculations(r) ==
    IF ~Truthy(r.summary) \/ ~Truthy(r.summary.taxes) \/ ~Truthy(r.summary.subtotal)
    THEN <<>>
    ELSE LET taxes == r.summary.taxes.n
             subtotal == r.summary.subtotal.n
             roundedTaxRate == RoundDiv(100 * taxes, subtotal)
             isCommonRate == \E rate \in commonTaxRates : Abs(roundedTaxRate - rate) <= 1
             positiveRate == (taxes > 0) = (subtotal > 0)
         IN IF ~isCommonRate /\ positiveRate
            THEN <<Issue(ValidationIssueTypes.UNUSUAL_TAX_RATE,
                         <<Txt("Unusual tax rate detected: "), IntTok(roundedTaxRate),
                           Txt("%")>>,
                         ValidationSeverity.INFO)>>
            ELSE <<>>

\* x || 0 for a number field
OrZero(x) == IF Truthy(x) THEN x.n ELSE 0

validateTotals(r) ==
    IF ~Truthy(r.summary) \/ ~Truthy(r.summary.total) \/ ~Truthy(r.items)
    THEN <<>>
    ELSE LET itemsTotal ==
                 SumSeq([i \in 1..Len(r.items.v) |-> OrZero(r.items.v[i].total_price)])
         IN IF Truthy(r.summary.subtotal)
               /\ Abs(itemsTotal - r.summary.subtotal.n) > Unit
            THEN <<Issue(ValidationIssueTypes.ITEMS_SUBTOTAL_MISMATCH,
                         <<Txt("Sum of item prices ("), Fixed2(itemsTotal),
                           Txt(") doesn't match subtotal ("),
                           Fixed2(r.summary.subtotal.n), Txt(")")>>,
                         ValidationSeverity.WARNING)>>
            ELSE <<>>

validateCurrencyConsistency(r) ==
    IF ~Truthy(r.payment) \/ ~Truthy(r.payment.currency)
    THEN <<>>
    ELSE IF ~CurrencyPattern(r.payment.currency.s)
    THEN <<Issue(ValidationIssueTypes.INVALID_CURRENCY_CODE,
                 <<Txt("Invalid currency code format: "), Txt(r.payment.currency.s)>>,
                 ValidationSeverity.WARNING)>>
    ELSE <<>>

\* a receipt-number check that reports its finding as a warning
validateReceiptNumberFormat_AsWarning(r) ==
    IF ~Truthy(r.header) \/ ~Truthy(r.header.receipt_number)
    THEN <<>>
    ELSE IF ~ReceiptNumberPattern(r.header.receipt_number.s)
    THEN <<Issue(ValidationIssueTypes.SUSPICIOUS_RECEIPT_NUMBER,
                 <<Txt("Receipt number contains unusual characters")>>,
                 ValidationSeverity.WARNING)>>
    ELSE <<>>

validateReceiptNumberFormat(r) ==
    IF ~Truthy(r.header) \/ ~Truthy(r.header.receipt_number)
    THEN <<>>
    ELSE IF ~ReceiptNumberPattern(r.header.receipt_number.s)
    THEN <<Issue(ValidationIssueTypes.SUSPICIOUS_RECEIPT_NUMBER,
                 <<Txt("Receipt number contains unusual characters")>>,
                 ValidationSeverity.INFO)>>
    ELSE <<>>

RECURSIVE Flatten(_)
Flatten(ss) == IF ss = <<>> THEN <<>> ELSE ss[1] \o Flatten(Tail(ss))

\* the issue of one item in validateItemsQuantityPrice; quantity counts whole
\* pieces, prices are in thousandths
ItemPriceIssues(item, index) ==
    IF Truthy(item.quantity) /\ Truthy(item.unit_price) /\ Truthy(item.total_price)
    THEN LET itemCalculatedTotal == item.quantity.n * item.unit_price.n
         IN IF Abs(itemCalculatedTotal - item.total_price.n) > 10
            THEN <<Issue(ValidationIssueTypes.ITEM_PRICE_CALCULATION,
                         <<Txt("Item "), IntTok(index), Txt(" ("),
                           Txt(Interpolate(item.description)),
                           Txt("): quantity x unit price ("),
                           Fixed2(itemCalculatedTotal),
                           Txt(") doesn't match total price ("),
                           Fixed2(item.total_price.n), Txt(")")>>,
                         ValidationSeverity.WARNING)>>
            ELSE <<>>
    ELSE <<>>

validateItemsQuantityPrice(r) ==
    IF ~Truthy(r.items) \/ Len(r.items.v) = 0
    THEN <<>>
    ELSE Flatten([i \in 1..Len(r.items.v) |-> ItemPriceIssues(r.items.v[i], i)])

validatePaymentMethodsTotal(r) ==
    IF ~Truthy(r.payment) \/ ~Truthy(r.payment.payment_methods)
       \/ ~Truthy(r.payment.total_amount)
    THEN <<>>
    ELSE LET methods == r.payment.payment_methods.v
             paymentMethodsTotal ==
                 SumSeq([i \in 1..Len(methods) |-> OrZero(methods[i].amount)])
         IN IF Abs(paymentMethodsTotal - r.payment.total_amount.n) > 10
            THEN <<Issue(ValidationIssueTypes.PAYMENT_METHODS_MISMATCH,
                         <<Txt("Sum of payment methods ("), Fixed2(paymentMethodsTotal),
                           Txt(") doesn't match total amount ("),
                           Fixed2(r.payment.total_amount.n), Txt(")")>>,
                         ValidationSeverity.WARNING)>>
            ELSE <<>>

\* !s || s.trim() === ""
Blank(x) == ~Truthy(x) \/ Trim(x.s) = ""

validateStoreInfo(r) ==
    IF ~Truthy(r.header)
    THEN <<>>
    ELSE (IF Blank(r.header.store_name)
          THEN <<Issue(ValidationIssueTypes.EMPTY_STORE_NAME,
                       <<Txt("Store name is empty or missing")>>,
                       ValidationSeverity.WARNING)>>
          ELSE <<>>)
         \o
         (IF Blank(r.header.store_address)
          THEN <<Issue(ValidationIssueTypes.EMPTY_STORE_ADDRESS,
                       <<Txt("Store address is empty or missing")>>,
                       ValidationSeverity.INFO)>>
          ELSE <<>>)

\* a key that lower-cases the description without trimming it
Signature_NoTrim(item) == <<ToLowerCase(item.description.s), item.unit_price>>

\* the key of validateDuplicateItems' Map: the trimmed, lower-cased description
\* and the text of unit_price (a number, "undefined" or "null")
Signature(item) == <<ToLowerCase(Trim(item.description.s)), item.unit_price>>

\* the positions of s in order, as the tokens of indexes.join(", ")
RECURSIVE JoinIndexes(_)
JoinIndexes(s) ==
    IF s = <<>> THEN <<>>
    ELSE IF Len(s) = 1 THEN <<IntTok(s[1])>>
    ELSE <<IntTok(s[1]), Txt(", ")>> \o JoinIndexes(Tail(s))

\* the 1-based positions (in item order) of the items that share item i's key
SameSignature(items, i) ==
    SelectSeq([j \in 1..Len(items) |-> j],
              LAMBDA j : Truthy(items[j].description)
                         /\ Signature(items[j]) = Signature(items[i]))

\* the Map entry created at item i, if item i is the first with its key
DuplicateGroupIssues(items, i) ==
    IF Truthy(items[i].description)
       /\ SameSignature(items, i)[1] = i
       /\ Len(SameSignature(items, i)) > 1
    THEN <<Issue(ValidationIssueTypes.DUPLICATE_ITEMS,
                 <<Txt("Potential duplicate items found (items ")>>
                     \o JoinIndexes(SameSignature(items, i)) \o <<Txt(")")>>,
                 ValidationSeverity.INFO)>>
    ELSE <<>>

validateDuplicateItems(r) ==
    IF ~Truthy(r.items) \/ Len(r.items.v) <= 1
    THEN <<>>
    ELSE Flatten([i \in 1..Len(r.items.v) |-> DuplicateGroupIssues(r.items.v, i)])

validateTimeFormat(r) ==
    IF ~Truthy(r.header) \/ ~Truthy(r.header.timestamp)
    THEN <<>>
    ELSE IF ~isoDatePattern(r.header.timestamp.s)
    THEN <<Issue(ValidationIssueTypes.TIMESTAMP_FORMAT,
                 <<Txt("Timestamp format does not follow ISO 8601 / RFC3339 standard")>>,
                 ValidationSeverity.WARNING)>>
    ELSE <<>>

\* a summary check whose expected total leaves the service charge out
validateSummaryCalculations_NoServiceCharge(r) ==
    IF ~Truthy(r.summary) \/ ~Truthy(r.summary.subtotal)
       \/ ~Truthy(r.summary.taxes) \/ ~Truthy(r.summary.total)
    THEN <<>>
    ELSE LET expectedTotal ==
                 r.summary.subtotal.n + r.summary.taxes.n - OrZero(r.summary.discounts)
         IN IF Abs(expectedTotal - r.summary.total.n) > 10
            THEN <<Issue(ValidationIssueTypes.SUMMARY_CALCULATION_ERROR,
                         <<Txt("Calculated total ("), Fixed2(expectedTotal),
                           Txt(") doesn't match stated total ("),
                           Fixed2(r.summary.total.n), Txt(")")>>,
                         ValidationSeverity.WARNING)>>
            ELSE <<>>

validateSummaryCalculations(r) ==
    IF ~Truthy(r.summary) \/ ~Truthy(r.summary.subtotal)
       \/ ~Truthy(r.summary.taxes) \/ ~Truthy(r.summary.total)
    THEN <<>>
    ELSE LET expectedTotal ==
                 r.summary.subtotal.n + r.summary.taxes.n
                     + OrZero(r.summary.service_charge) - OrZero(r.summary.discounts)
         IN IF Abs(expectedTotal - r.summary.total.n) > 10
            THEN <<Issue(ValidationIssueTypes.SUMMARY_CALCULATION_ERROR,
                         <<Txt("Calculated total ("), Fixed2(expectedTotal),
                           Txt(") doesn't match stated total ("),
                           Fixed2(r.summary.total.n), Txt(")")>>,
                         ValidationSeverity.WARNING)>>
            ELSE <<>>

\* x < 0 in JavaScript: false for undefined, null and 0
Negative(x) == IsNumber(x) /\ x.n < 0

NegativeItemIssues(item, index) ==
    IF Negative(item.quantity) \/ Negative(item.unit_price) \/ Negative(item.total_price)
    THEN <<Issue(ValidationIssueTypes.NEGATIVE_AMOUNT,
                 <<Txt("Item "), IntTok(index), Txt(" ("),
                   Txt(Interpolate(item.description)), Txt(") has negative values")>>,
                 ValidationSeverity.WARNING)>>
    ELSE <<>>

validateNegativeAmounts(r) ==
    (IF Truthy(r.items)
     THEN Flatten([i \in 1..Len(r.items.v) |-> NegativeItemIssues(r.items.v[i], i)])
     ELSE <<>>)
    \o
    (IF Truthy(r.summary) /\ Negative(r.summary.subtotal)
     THEN <<Issue(ValidationIssueTypes.NEGATIVE_AMOUNT,
                  <<Txt("Subtotal is negative")>>, ValidationSeverity.WARNING)>>
     ELSE <<>>)
    \o
    (IF Truthy(r.summary) /\ Negative(r.summary.total)
     THEN <<Issue(ValidationIssueTypes.NEGATIVE_AMOUNT,
                  <<Txt("Total amount is negative")>>, ValidationSeverity.WARNING)>>
     ELSE <<>>)

CardIssues(method, index) ==
    IF method.method.s \in cardMethods
    THEN IF ~Truthy(method.card_four_digit)
         THEN <<Issue(ValidationIssueTypes.CARD_NUMBER_FORMAT,
                      <<Txt("Payment method "), IntTok(index), Txt(" ("),
                        Txt(method.method.s), Txt(") is missing card number")>>,
                      ValidationSeverity.INFO)>>
         ELSE IF ~FourDigitPattern(method.card_four_digit.s)
         THEN <<Issue(ValidationIssueTypes.CARD_NUMBER_FORMAT,
                      <<Txt("Payment method "), IntTok(index),
                        Txt(" has invalid card number format (should be 4 digits)")>>,
                      ValidationSeverity.WARNING)>>
         ELSE <<>>
    ELSE <<>>

validateCardNumbers(r) ==
    IF ~Truthy(r.payment) \/ ~Truthy(r.payment.payment_methods)
    THEN <<>>
    ELSE Flatten([i \in 1..Len(r.payment.payment_methods.v) |->
                     CardIssues(r.payment.payment_methods.v[i], i)])

\* a discrepancy rule that explains every non-zero discrepancy, however small
validateDiscrepancy_NoThreshold(r) ==
    IF ~Truthy(r.summary) \/ ~Truthy(r.summary.discrepancy)
    THEN <<>>
    ELSE <<Issue(ValidationIssueTypes.DISCREPANCY_EXPLANATION,
                 <<Txt("Significant discrepancy ("), Fixed2(r.summary.discrepancy.n),
                   Txt(") detected in receipt totals")>>,
                 ValidationSeverity.WARNING)>>

validateDiscrepancy(r) ==
    IF ~Truthy(r.summary) \/ ~Truthy(r.summary.discrepancy)
    THEN <<>>
    ELSE IF Abs(r.summary.discrepancy.n) > Unit
    THEN <<Issue(ValidationIssueTypes.DISCREPANCY_EXPLANATION,
                 <<Txt("Significant discrepancy ("), Fixed2(r.summary.discrepancy.n),
                   Txt(") detected in receipt totals")>>,
                 ValidationSeverity.WARNING)>>
    ELSE <<>>

\* (a / b * 100).toFixed(1) for a, b of the same sign
FixedPercent1(a, b) ==
    [t |-> "fixed", s |-> "",
     n |-> (1000 * Abs(a) + (Abs(b) \div 2)) \div Abs(b), d |-> 1]

\* service_charge / subtotal * 100 > 25
ServiceChargeHigh(sc, subtotal) ==
    IF subtotal > 0 THEN 100 * sc > 25 * subtotal ELSE 100 * sc < 25 * subtotal

\* the first block of validateServiceCharge: the range of the service charge
ServiceChargeRangeIssues(r) ==
    IF Truthy(r.summary.service_charge)
    THEN (IF ServiceChargeHigh(r.summary.service_charge.n, r.summary.subtotal.n)
          THEN <<Issue(ValidationIssueTypes.SERVICE_CHARGE_CALCULATION,
                       <<Txt("Service charge ("),
                         FixedPercent1(r.summary.service_charge.n, r.summary.subtotal.n),
                         Txt("%) seems unusually high")>>,
                       ValidationSeverity.INFO)>>
          ELSE <<>>)
         \o
         (IF Truthy(r.summary.taxes)
             /\ Abs(r.summary.service_charge.n - r.summary.taxes.n) < 10
          THEN <<Issue(ValidationIssueTypes.SERVICE_CHARGE_CALCULATION,
                       <<Txt("Service charge ("), Fixed2(r.summary.service_charge.n),
                         Txt(") is identical to tax amount, possibly a duplicate or parsing error")>>,
                       ValidationSeverity.INFO)>>
          ELSE <<>>)
    ELSE <<>>

\* a total check that adds every service charge, whatever the flag says
shouldIncludeServiceCharge_Always(r) == Truthy(r.summary.service_charge)

shouldIncludeServiceCharge(r) ==
    Truthy(r.summary.service_charge)
    /\ r.summary.service_charge_included = Bool(TRUE)

\* an expected total that leaves the taxes out
ServiceChargeExpectedTotal_NoTaxes(r) ==
    r.summary.subtotal.n
        + (IF shouldIncludeServiceCharge(r) THEN r.summary.service_charge.n ELSE 0)
        - OrZero(r.summary.discounts)

ServiceChargeExpectedTotal(r) ==
    r.summary.subtotal.n + r.summary.taxes.n
        + (IF shouldIncludeServiceCharge(r) THEN r.summary.service_charge.n ELSE 0)
        - OrZero(r.summary.discounts)

\* the second block of validateServiceCharge: the total with the service charge
ServiceChargeTotalIssues(r) ==
    IF Truthy(r.summary.taxes) /\ Truthy(r.summary.total)
    THEN IF Abs(ServiceChargeExpectedTotal(r) - r.summary.total.n) > 10
         THEN IF Truthy(r.summary.service_charge)
                 /\ Abs(Abs(OrZero(r.summary.discrepancy)) - r.summary.service_charge.n) < 10
              THEN <<Issue(ValidationIssueTypes.SERVICE_CHARGE_CALCULATION,
                           <<Txt("Service charge ("), Fixed2(r.summary.service_charge.n),
                             Txt(") appears to be "),
                             Txt(IF Truthy(r.summary.service_charge_included)
                                 THEN "included in" ELSE "excluded from"),
                             Txt(" the total amount")>>,
                           ValidationSeverity.INFO)>>
              ELSE <<Issue(ValidationIssueTypes.SUMMARY_CALCULATION_ERROR,
                           <<Txt("Total calculation "),
                             Txt(IF shouldIncludeServiceCharge(r) THEN "with" ELSE "without"),
                             Txt(" service charge: expected "),
                             Fixed2(ServiceChargeExpectedTotal(r)),
                             Txt(", got "), Fixed2(r.summary.total.n)>>,
                           ValidationSeverity.WARNING)>>
         ELSE <<>>
    ELSE <<>>

validateServiceCharge(r) ==
    IF ~Truthy(r.summary) \/ ~Truthy(r.summary.subtotal)
    THEN <<>>
    ELSE ServiceChargeRangeIssues(r) \o ServiceChargeTotalIssues(r)

threshold == 1000

\* a total floor whose finding carries severity error
validateTotalAmount_AsError(r) ==
    IF ~Truthy(r.summary) \/ ~Truthy(r.summary.total)
    THEN <<>>
    ELSE IF r.summary.total.n < threshold * Unit
    THEN <<Issue(ValidationIssueTypes.TOTAL_TOO_SMALL,
                 <<Txt("Total too less than "), IntTok(threshold),
                   Txt(", might be because of thousand scaling")>>,
                 ValidationSeverity.ERROR)>>
    ELSE <<>>

validateTotalAmount(r) ==
    IF ~Truthy(r.summary) \/ ~Truthy(r.summary.total)
    THEN <<>>
    ELSE IF r.summary.total.n < threshold * Unit
    THEN <<Issue(ValidationIssueTypes.TOTAL_TOO_SMALL,
                 <<Txt("Total too less than "), IntTok(threshold),
                   Txt(", might be because of thousand scaling")>>,
                 ValidationSeverity.FATAL)>>
    ELSE <<>>

(***************************************************************************)
(* ReceiptValidator.validate: rule order, confidence score, validity       *)
(* Weights and scores are counted in ten-thousandths (10000 = 1.0).        *)
(***************************************************************************)
baseFatalWeight == 6000
baseErrorWeight == 3000
baseWarningWeight == 1000
baseInfoWeight == 300

\* a switch without the case of FATAL, which then falls to the default
baseWeight_NoFatalCase(severity) ==
    CASE severity = ValidationSeverity.ERROR -> baseErrorWeight
      [] severity = ValidationSeverity.WARNING -> baseWarningWeight
      [] OTHER -> baseInfoWeight

baseWeight(severity) ==
    CASE severity = ValidationSeverity.FATAL -> baseFatalWeight
      [] severity = ValidationSeverity.ERROR -> baseErrorWeight
      [] severity = ValidationSeverity.WARNING -> baseWarningWeight
      [] OTHER -> baseInfoWeight

isNumericalDiscrepancyIssue(type) ==
    type \in {ValidationIssueTypes.ITEMS_SUBTOTAL_MISMATCH,
              ValidationIssueTypes.SUMMARY_CALCULATION_ERROR,
              ValidationIssueTypes.ITEM_PRICE_CALCULATION,
              ValidationIssueTypes.PAYMENT_METHODS_MISMATCH,
              ValidationIssueTypes.DISCREPANCY_EXPLANATION}

\* the matches of /(\d+\.\d+)/g in one piece of a message, in hundredths; the
\* sign of a formatted number is not part of the match
TokenDecimals(tok) ==
    CASE tok.t = "fixed" /\ tok.d = 2 -> <<Abs(tok.n)>>
      [] tok.t = "fixed" /\ tok.d = 1 -> <<10 * Abs(tok.n)>>
      [] tok.t = "text" -> DecimalsInText(tok.s)
      [] OTHER -> <<>>

\* message.match(/(\d+\.\d+)/g)
MatchDecimals(message) ==
    Flatten([i \in 1..Len(message) |-> TokenDecimals(message[i])])

\* The percentage is diff / base * 100, returned as the pair diff, base;
\* null when fewer than two numbers are found or the larger one is 0.
extractDiscrepancyPercentage(message) ==
    LET numbers == MatchDecimals(message)
    IN IF Len(numbers) < 2
       THEN [null |-> TRUE, diff |-> 0, base |-> 1]
       ELSE LET value1 == numbers[1]
                value2 == numbers[2]
                base == Max(value1, value2)
                diff == Abs(value1 - value2)
            IN IF base = 0
               THEN [null |-> TRUE, diff |-> 0, base |-> 1]
               ELSE [null |-> FALSE, diff |-> diff, base |-> base]

\* weight * Math.min(1.0, percentage / 10), cut to a ten-thousandth
adjustWeight(weight, pct) ==
    IF 10 * pct.diff >= pct.base
    THEN weight
    ELSE (weight * 10 * pct.diff) \div pct.base

\* the weight one issue adds to confidenceReduction
issueWeight(issue) ==
    IF isNumericalDiscrepancyIssue(issue.type)
       /\ ~extractDiscrepancyPercentage(issue.message).null
    THEN adjustWeight(baseWeight(issue.severity),
                      extractDiscrepancyPercentage(issue.message))
    ELSE baseWeight(issue.severity)

confidenceReduction(issues) ==
    SumSeq([i \in 1..Len(issues) |-> issueWeight(issues[i])])

\* a score without Math.max(0, ...), rounded like toFixed(2)
confidenceScore_Unclamped(issues) ==
    IF 10000 - confidenceReduction(issues) < 0
    THEN -(((confidenceReduction(issues) - 10000 + 50) \div 100) * 100)
    ELSE ((10000 - confidenceReduction(issues) + 50) \div 100) * 100

\* parseFloat(Math.max(0, 1.0 - confidenceReduction).toFixed(2))
confidenceScore(issues) ==
    ((Max(0, 10000 - confidenceReduction(issues)) + 50) \div 100) * 100

\* a validity that an issue of severity fatal also takes away
isValid_FatalInvalidates(issues) ==
    Len(SelectSeq(issues, LAMBDA i : i.severity \in {ValidationSeverity.ERROR,
                                                     ValidationSeverity.FATAL})) = 0

\* issues.filter(i => i.severity === ERROR).length === 0
isValid(issues) ==
    Len(SelectSeq(issues, LAMBDA i : i.severity = ValidationSeverity.ERROR)) = 0

\* the checks run in the order of the rule catalog, the timestamp format second
runAllValidations_CatalogOrder(r, clock) ==
    validateTimestamp(r, clock)
    \o validateTimeFormat(r)
    \o validateTaxCalculations(r)
    \o validateTotals(r)
    \o validateCurrencyConsistency(r)
    \o validateReceiptNumberFormat(r)
    \o validateItemsQuantityPrice(r)
    \o validatePaymentMethodsTotal(r)
    \o validateStoreInfo(r)
    \o validateDuplicateItems(r)
    \o validateSummaryCalculations(r)
    \o validateNegativeAmounts(r)
    \o validateCardNumbers(r)
    \o validateDiscrepancy(r)
    \o validateServiceCharge(r)
    \o validateTotalAmount(r)

\* the issues in the order in which validate runs the rule checks
runAllValidations(r, clock) ==
    validateTimestamp(r, clock)
    \o validateTaxCalculations(r)
    \o validateTotals(r)
    \o validateCurrencyConsistency(r)
    \o validateReceiptNumberFormat(r)
    \o validateItemsQuantityPrice(r)
    \o validatePaymentMethodsTotal(r)
    \o validateStoreInfo(r)
    \o validateDuplicateItems(r)
    \o validateTimeFormat(r)
    \o validateSummaryCalculations(r)
    \o validateNegativeAmounts(r)
    \o validateCardNumbers(r)
    \o validateDiscrepancy(r)
    \o validateServiceCharge(r)
    \o validateTotalAmount(r)

validate(r, clock) ==
    LET issues == runAllValidations(r, clock)
    IN [valid |-> isValid(issues),
        issues |-> issues,
        confidence_score |-> confidenceScore(issues)]

(***************************************************************************)
(* TypeErrors.  Reading a property of, or calling a method on, undefined   *)
(* or null throws.  For each function, the condition under which one of    *)
(* its property reads or method calls is reached with an absent receiver.  *)
(***************************************************************************)
Absent(x) == x.k \in {"undefined", "null"}

\* the property read or method call is reached and its receiver is absent
Deref(reached, receiver) == reached /\ Absent(receiver)

calculateDiscrepancyThrows(r) ==
    \/ Deref(~CalculatorSkips(r), r.items)
    \/ Deref(~CalculatorSkips(r), r.summary)

validateTimestampThrows(r) ==
    Deref(Truthy(r.header) /\ Truthy(r.header.timestamp), r.header)

validateTaxCalculationsThrows(r) ==
    Deref(Truthy(r.summary) /\ Truthy(r.summary.taxes) /\ Truthy(r.summary.subtotal),
          r.summary)

validateTotalsThrows(r) ==
    LET reached == Truthy(r.summary) /\ Truthy(r.summary.total) /\ Truthy(r.items)
    IN \/ Deref(reached, r.items)
       \/ Deref(reached, r.summary)
       \/ Deref(reached /\ Truthy(r.summary.subtotal), r.summary.subtotal)

validateCurrencyConsistencyThrows(r) ==
    Deref(Truthy(r.payment) /\ Truthy(r.payment.currency), r.payment)

validateReceiptNumberFormatThrows(r) ==
    Deref(Truthy(r.header) /\ Truthy(r.header.receipt_number), r.header)

validateItemsQuantityPriceThrows(r) ==
    \/ Deref(Truthy(r.items), r.items)
    \/ \E i \in 1..Len(r.items.v) :
          Deref(Truthy(r.items) /\ Truthy(r.items.v[i].quantity)
                    /\ Truthy(r.items.v[i].unit_price)
                    /\ Truthy(r.items.v[i].total_price),
                r.items.v[i].total_price)

validatePaymentMethodsTotalThrows(r) ==
    LET reached == Truthy(r.payment) /\ Truthy(r.payment.payment_methods)
                       /\ Truthy(r.payment.total_amount)
    IN \/ Deref(reached, r.payment)
       \/ Deref(reached, r.payment.payment_methods)
       \/ Deref(reached, r.payment.total_amount)

validateStoreInfoThrows(r) ==
    \/ Deref(Truthy(r.header), r.header)
    \/ Deref(Truthy(r.header) /\ Truthy(r.header.store_name), r.header.store_name)
    \/ Deref(Truthy(r.header) /\ Truthy(r.header.store_address), r.header.store_address)

validateDuplicateItemsThrows(r) ==
    \/ Deref(Truthy(r.items), r.items)
    \/ \E i \in 1..Len(r.items.v) :
          Deref(Truthy(r.items) /\ Len(r.items.v) > 1
                    /\ Truthy(r.items.v[i].description),
                r.items.v[i].description)

validateTimeFormatThrows(r) ==
    Deref(Truthy(r.header) /\ Truthy(r.header.timestamp), r.header)

validateSummaryCalculationsThrows(r) ==
    LET reached == Truthy(r.summary) /\ Truthy(r.summary.subtotal)
                       /\ Truthy(r.summary.taxes) /\ Truthy(r.summary.total)
    IN \/ Deref(Truthy(r.summary), r.summary)
       \/ Deref(reached, r.summary.total)

\* a check of negative amounts that reads the summary without testing it
validateNegativeAmountsThrows_Unguarded(r) ==
    \/ Deref(Truthy(r.items), r.items)
    \/ Deref(TRUE, r.summary)

validateNegativeAmountsThrows(r) ==
    \/ Deref(Truthy(r.items), r.items)
    \/ Deref(Truthy(r.summary), r.summary)

validateCardNumbersThrows(r) ==
    LET reached == Truthy(r.payment) /\ Truthy(r.payment.payment_methods)
    IN \/ Deref(reached, r.payment)
       \/ Deref(reached, r.payment.payment_methods)

validateDiscrepancyThrows(r) ==
    LET reached == Truthy(r.summary) /\ Truthy(r.summary.discrepancy)
    IN \/ Deref(reached, r.summary)
       \/ Deref(reached /\ Abs(r.summary.discrepancy.n) > Unit, r.summary.discrepancy)

validateServiceChargeThrows(r) ==
    LET reached == Truthy(r.summary) /\ Truthy(r.summary.subtotal)
    IN \/ Deref(reached, r.summary)
       \/ Deref(reached /\ Truthy(r.summary.service_charge), r.summary.service_charge)
       \/ Deref(reached /\ Truthy(r.summary.taxes) /\ Truthy(r.summary.total),
                r.summary.total)

validateTotalAmountThrows(r) ==
    Deref(Truthy(r.summary) /\ Truthy(r.summary.total), r.summary)

validateThrows(r) ==
    \/ validateTimestampThrows(r)
    \/ validateTaxCalculationsThrows(r)
    \/ validateTotalsThrows(r)
    \/ validateCurrencyConsistencyThrows(r)
    \/ validateReceiptNumberFormatThrows(r)
    \/ validateItemsQuantityPriceThrows(r)
    \/ validatePaymentMethodsTotalThrows(r)
    \/ validateStoreInfoThrows(r)
    \/ validateDuplicateItemsThrows(r)
    \/ validateTimeFormatThrows(r)
    \/ validateSummaryCalculationsThrows(r)
    \/ validateNegativeAmountsThrows(r)
    \/ validateCardNumbersThrows(r)
    \/ validateDiscrepancyThrows(r)
    \/ validateServiceChargeThrows(r)
    \/ validateTotalAmountThrows(r)

(***************************************************************************)
(* Receipt records and the bounded set of receipts the model is run on     *)
(***************************************************************************)
Header(receipt_number, timestamp, store_name, store_address) ==
    [k |-> "object", receipt_number |-> receipt_number, timestamp |-> timestamp,
     store_name |-> store_name, store_address |-> store_address]

NoHeader ==
    [k |-> "undefined", receipt_number |-> UndefStr, timestamp |-> UndefStr,
     store_name |-> UndefStr, store_address |-> UndefStr]

Item(description, quantity, unit_price, total_price) ==
    [description |-> description, quantity |-> quantity,
     unit_price |-> unit_price, total_price |-> total_price]

Method(method, amount, card_four_digit) ==
    [method |-> Str(method), amount |-> amount, card_four_digit |-> card_four_digit]

Payment(total_amount, currency, payment_methods) ==
    [k |-> "object", total_amount |-> total_amount, currency |-> currency,
     payment_methods |-> payment_methods]

NoPayment ==
    [k |-> "undefined", total_amount |-> Undef, currency |-> UndefStr,
     payment_methods |-> UndefList]

Charge(amount) == [description |-> Str("Packaging"), amount |-> amount]

Summary(subtotal, taxes, total, discounts, service_charge, other_charges, discrepancy, service_charge_included) ==
    [k |-> "object", subtotal |-> subtotal, taxes |-> taxes, total |-> total,
     discounts |-> discounts, service_charge |-> service_charge,
     other_charges |-> other_charges, discrepancy |-> discrepancy,
     service_charge_included |-> service_charge_included]

NoSummary ==
    [k |-> "undefined", subtotal |-> Undef, taxes |-> Undef, total |-> Undef,
     discounts |-> Undef, service_charge |-> Undef, other_charges |-> UndefList,
     discrepancy |-> Undef, service_charge_included |-> UndefBool]

Receipt(header, items, payment, summary) ==
    [header |-> header, category |-> "Dining", items |-> items,
     payment |-> payment, summary |-> summary]

\* all sequences over S of length at most n
SeqsUpTo(S, n) == UNION {[1..m -> S] : m \in 0..n}

GoodHeader ==
    Header(Str("0042"), Str("2025-03-01T10:00:00.250+07:00"),
           Str("Toko Maju"), Str("Jl. Merdeka 1"))

GoodPayment ==
    Payment(Num(110 * Unit), Str("IDR"), List(<<Method("Cash", Num(110 * Unit), UndefStr)>>))

NasiGoreng == Item(Str("Nasi Goreng"), Num(2), Num(50 * Unit), Num(100 * Unit))

EsTeh == Item(Str("Es Teh"), Num(1), Num(1000 * Unit), Num(1000 * Unit))

ItemChoices ==
    {NasiGoreng, EsTeh,
     Item(Str("Nasi Goreng "), Num(1), Num(50 * Unit), Num(1000 * Unit)),
     Item(Str("Cola 1.5L"), Num(1), Num(10 * Unit), Num(10 * Unit + 4)),
     Item(Str("Cola 1.5L"), Num(3), Num(10 * Unit), Num(31 * Unit)),
     Item(UndefStr, Num(-1), Num(20 * Unit), Undef),
     Item(Str(""), Null, Null, Null)}

PlainSummary ==
    Summary(Num(100 * Unit), Num(10 * Unit), Num(110 * Unit), Undef, Undef,
            UndefList, Undef, UndefBool)

OddSummary ==
    Summary(Num(1000 * Unit), Num(300 * Unit), Num(900 * Unit), Undef,
            Num(50 * Unit), UndefList, Num(20 * Unit), Bool(FALSE))

\* receipts that vary the items
ItemsReceipts ==
    {Receipt(GoodHeader, items, GoodPayment, summary) :
        items \in {UndefList} \cup {List(v) : v \in SeqsUpTo(ItemChoices, MaxItems)},
        summary \in {PlainSummary, OddSummary, NoSummary}}

ChargeLists ==
    {UndefList} \cup {List(v) : v \in SeqsUpTo({Charge(Num(5 * Unit)), Charge(Null)}, MaxCharges)}

\* receipts that vary what the Calculator reads
CalculatorReceipts ==
    {Receipt(GoodHeader, List(items), GoodPayment,
             Summary(Num(100 * Unit), taxes, total, discounts, service_charge,
                     other_charges, given[1], given[2])) :
        items \in {<<NasiGoreng>>, <<EsTeh, NasiGoreng>>},
        taxes \in {Undef, Num(10 * Unit), Num(10 * Unit + 4)},
        total \in {Undef, Null, Num(0), Num(110 * Unit), Num(130 * Unit),
                   Num(1110 * Unit + 5), Num(120 * Unit), Num(-110 * Unit)},
        discounts \in {Undef, Num(20 * Unit)},
        service_charge \in {Undef, Null, Num(20 * Unit), Num(4)},
        other_charges \in ChargeLists,
        given \in {<<Undef, UndefBool>>, <<Num(20 * Unit), Bool(TRUE)>>}}

\* receipts that vary what the summary rules of the Validator read
SummaryReceipts ==
    {Receipt(GoodHeader, List(<<NasiGoreng>>), GoodPayment,
             Summary(subtotal, taxes, total, Undef, service_charge, UndefList,
                     discrepancy, service_charge_included)) :
        subtotal \in {Undef, Num(100 * Unit), Num(1000 * Unit), Num(-100 * Unit)},
        taxes \in {Undef, Num(10 * Unit), Num(130 * Unit)},
        total \in {Num(110 * Unit), Num(120 * Unit), Num(1130 * Unit), Num(1160 * Unit)},
        service_charge \in {Undef, Num(10 * Unit), Num(30 * Unit)},
        discrepancy \in {Undef, Num(10 * Unit), Num(-30 * Unit)},
        service_charge_included \in {UndefBool, Bool(TRUE), Bool(FALSE)}}

\* receipts that vary the header
HeaderReceipts ==
    {Receipt(header, List(<<NasiGoreng>>), GoodPayment, summary) :
        header \in {NoHeader} \cup
            {Header(rn, ts, name, Str("Jl. Merdeka 1")) :
                rn \in {UndefStr, Str("0042"), Str("INV#001")},
                ts \in {UndefStr} \cup {Str(t) : t \in TimestampTexts},
                name \in {UndefStr, Str(" Toko Maju "), Str("  ")}}
            \cup {Header(Str("0042"), Str("2026-03-01"), Str("Toko Maju"), addr) :
                addr \in {UndefStr, Str("")}},
        summary \in {PlainSummary, OddSummary}}

MethodChoices ==
    {Method("Cash", Num(100 * Unit), UndefStr),
     Method("Credit Card", Num(10 * Unit), Str("1234")),
     Method("Debit Card", Num(10 * Unit + 5), Str("12a4")),
     Method("Credit Card", Undef, UndefStr),
     Method("Digital Wallet", Num(95 * Unit), Str("12"))}

\* receipts that vary the payment
PaymentReceipts ==
    {Receipt(GoodHeader, List(<<NasiGoreng>>), payment, PlainSummary) :
        payment \in {NoPayment} \cup
            {Payment(total_amount, currency, methods) :
                total_amount \in {Undef, Num(0), Num(100 * Unit), Num(110 * Unit)},
                currency \in {UndefStr} \cup {Str(c) : c \in CurrencyTexts},
                methods \in {UndefList} \cup
                    {List(v) : v \in SeqsUpTo(MethodChoices, MaxMethods)}}}

\* receipts with sub-records and fields missing
SparseReceipts ==
    {Receipt(header, items, payment, summary) :
        header \in {NoHeader, GoodHeader,
                    Header(UndefStr, UndefStr, UndefStr, UndefStr)},
        items \in {UndefList, List(<<Item(UndefStr, Undef, Undef, Undef)>>),
                   List(<<Item(UndefStr, Undef, Undef, Undef), NasiGoreng>>)},
        payment \in {NoPayment, GoodPayment, Payment(Undef, UndefStr, UndefList),
                     Payment(Num(100 * Unit), UndefStr,
                             List(<<[method |-> UndefStr, amount |-> Undef,
                                     card_four_digit |-> UndefStr]>>))},
        summary \in {NoSummary, PlainSummary,
                     Summary(Undef, Undef, Undef, Undef, Undef, UndefList, Undef, UndefBool),
                     Summary(Undef, Undef, Num(500 * Unit), Undef, Undef,
                             List(<<Charge(Undef)>>), Undef, UndefBool)}}

NasiGorengLarge == Item(Str("NASI GORENG"), Num(1), Num(60 * Unit), Num(60 * Unit))

DuplicateChoices ==
    {NasiGoreng, EsTeh, NasiGorengLarge,
     Item(Str("Nasi Goreng "), Num(1), Num(50 * Unit), Num(1000 * Unit))}

\* items in which one of the three numbers is 0
ZeroItems ==
    {Item(Str("Es Teh"), Num(0), Num(5 * Unit), Num(5 * Unit)),
     Item(Str("Es Teh"), Num(2), Num(0), Num(5 * Unit)),
     Item(Str("Es Teh"), Num(2), Num(50 * Unit), Num(0))}

\* receipts of single cases: a service charge below half a hundredth that the
\* total includes; lists of three and four items with repeated descriptions;
\* items with a number that is 0; summaries with no taxes (0) and with a total
\* that is off by a little more than a hundredth
ScenarioReceipts ==
    {Receipt(GoodHeader, List(<<NasiGoreng>>), GoodPayment,
             Summary(Num(100 * Unit), Num(10 * Unit), Num(110 * Unit + 4), Undef,
                     Num(4), UndefList, Undef, UndefBool))}
    \cup {Receipt(GoodHeader, List(v), GoodPayment, PlainSummary) :
              v \in [1..3 -> DuplicateChoices] \cup {<<NasiGoreng, EsTeh, NasiGoreng, EsTeh>>}
                       \cup {<<NasiGoreng, item>> : item \in ZeroItems}}
    \cup {Receipt(GoodHeader, List(<<NasiGoreng>>), GoodPayment,
                   Summary(Num(100 * Unit), taxes, total, Undef, Undef,
                           UndefList, Undef, UndefBool)) :
              taxes \in {Num(0), Num(10 * Unit)},
              total \in {Num(150 * Unit), Num(110 * Unit + 12)}}

Receipts ==
    ItemsReceipts \cup CalculatorReceipts \cup SummaryReceipts
        \cup HeaderReceipts \cup PaymentReceipts \cup SparseReceipts
        \cup ScenarioReceipts

(***************************************************************************)
(* The state machine: a receipt is received, the Calculator is applied to  *)
(* it (once inside GeminiService.parseReceipt, once more in Parse.handle), *)
(* and the Validator is run on the record, possibly again at a later time. *)
(***************************************************************************)
\* the clock starts in the year in which 2015 is exactly ten years ago
StartYear == 2015 + TenYears

NoReceipt == Receipt(NoHeader, UndefList, NoPayment, NoSummary)

NoResult == [k |-> "undefined", at |-> 0, valid |-> TRUE, issues |-> <<>>,
             confidence_score |-> 0]

\* the outcome of a call of validate that threw
Thrown(clock) == [k |-> "error", at |-> clock, valid |-> FALSE, issues |-> <<>>,
                  confidence_score |-> 0]

Result(v, clock) ==
    [k |-> "object", at |-> clock, valid |-> v.valid, issues |-> v.issues,
     confidence_score |-> v.confidence_score]

\* GeminiService.maxRetries
maxRetries == 3

\* the images a request may carry
ImageTexts == {"data:image/png;base64,iVBORw0KGgo=", "data:image/png;base64,", "iVBORw0KGgo=", ""}

\* /^data:image\/\w+;base64,/
ImagePattern(s) == s \in {"data:image/png;base64,iVBORw0KGgo=", "data:image/png;base64,"}

\* /^data:([A-Za-z-+\/]+);base64,(.+)$/
UploadPattern(s) == s = "data:image/png;base64,iVBORw0KGgo="

NoRequest == [image |-> "", validate |-> UndefBool]

NoResponse ==
    [status |-> 0, body |-> NoReceipt, image_path |-> FALSE, validation |-> NoResult]

\* c.json({ error: ... }, 400)
ErrorResponse ==
    [status |-> 400, body |-> NoReceipt, image_path |-> FALSE, validation |-> NoResult]

(***************************************************************************)
(* index.ts and middleware/auth.ts: the app's middleware and routes.       *)
(* Header values, paths and keys are strings.                              *)
(***************************************************************************)
\* s.startsWith(prefix)
startsWith(s, prefix) == Len(s) >= Len(prefix) /\ SubSeq(s, 1, Len(prefix)) = prefix

\* s.substring(start)
substring(s, start) == SubSeq(s, start + 1, Len(s))

\* the requests the app may receive: method, path, Authorization header
Methods == {"GET", "POST"}

Paths == {"/", "/docs", "/images/a.webp", "/api/parse", "/api/check-key", "/api/models", "/api/images", "/api/docs"}

AuthorizationHeaders == {UndefStr, Str(""), Str("Bearer"), Str("Bearer "), Str("Bearer s3cret"), Str("Bearer t0ken"), Str("bearer s3cret"), Str("s3cret"), Str("Basic s3cret"), Str("Bearer  s3cret"), Str("Bearer s3cret!")}

\* Bindings.API_KEY: bound to a string, or not bound
ApiKeys == {Str("s3cret"), Str("t0ken"), Str(""), UndefStr}

NoEnv == [API_KEY |-> UndefStr]

NoFetch == [method |-> "", path |-> "", authorization |-> UndefStr]

NoAnswer == [status |-> 0, error |-> ""]

\* c.json({ error: ... }, 401)
Unauthorized(error) == [status |-> 401, error |-> error]

\* app.use("/api/*", authMiddleware): the paths the middleware is mounted on
UnderApi(path) == path = "/api" \/ startsWith(path, "/api/")

\* the routes registered on the app
Route(method, path) ==
    CASE method = "POST" /\ path = "/api/parse" -> "Parse"
      [] method = "GET" /\ path = "/api/check-key" -> "CheckApiKey"
      [] method = "GET" /\ path = "/api/models" -> "Models"
      [] method = "POST" /\ path = "/api/images" -> "UploadReceiptImage"
      [] method = "GET" /\ startsWith(path, "/images/") /\ Len(path) > Len("/images/")
            -> "GetReceiptImage"
      [] method = "GET" /\ path = "/" -> "redirect"
      [] method = "GET" /\ path = "/docs" -> "docs"
      [] OTHER -> "notFound"

\* the handlers of the routes under /api/
ApiHandlers == {"Parse", "CheckApiKey", "Models", "UploadReceiptImage"}

\* a middleware that lets every header with the Bearer prefix pass
authMiddleware_AnyBearer(req, e) ==
    LET authHeader == req.authorization
    IN IF req.path = "/docs"
       THEN [next |-> TRUE, response |-> NoAnswer]
       ELSE IF ~Truthy(authHeader) \/ ~startsWith(authHeader.s, "Bearer ")
       THEN [next |-> FALSE,
             response |-> Unauthorized("Missing or invalid authorization header")]
       ELSE [next |-> TRUE, response |-> NoAnswer]

\* authMiddleware: next() is called, or a 401 response is returned
authMiddleware(req, e) ==
    LET authHeader == req.authorization
    IN IF req.path = "/docs"
       THEN [next |-> TRUE, response |-> NoAnswer]
       ELSE IF ~Truthy(authHeader) \/ ~startsWith(authHeader.s, "Bearer ")
       THEN [next |-> FALSE,
             response |-> Unauthorized("Missing or invalid authorization header")]
       ELSE IF Str(substring(authHeader.s, 7)) # e.API_KEY
       THEN [next |-> FALSE, response |-> Unauthorized("Invalid API key")]
       ELSE [next |-> TRUE, response |-> NoAnswer]

(***************************************************************************)
(* Parse.processAndUploadImage and the object storage (MinioService).      *)
(* The storage is the set of the keys of its objects.                      *)
(***************************************************************************)
\* the content types and the data a data URL may carry
MimeTypes == {"image/png", "image/jpeg", "image/x-icon", "image/jp2"}

Base64Texts == {"iVBORw0KGgo=", "/9j/4AAQSkZJRg==", "@@", ""}

\* base64Image.match(/^data:([A-Za-z-+\/]+);base64,(.+)$/) on
\* "data:" + mime + ";base64," + data
DataUrlMatches(mime, data) == mime \in {"image/png", "image/jpeg", "image/x-icon"} /\ data # ""

\* atob(base64Data) returns
AtobAccepts(data) == data \in {"iVBORw0KGgo=", "/9j/4AAQSkZJRg=="}

getFileExtensionFromMimeType(mimeType) ==
    CASE mimeType = "image/jpeg" -> ".jpg"
      [] mimeType = "image/png" -> ".png"
      [] mimeType = "image/gif" -> ".gif"
      [] mimeType = "image/webp" -> ".webp"
      [] mimeType = "image/bmp" -> ".bmp"
      [] mimeType = "image/tiff" -> ".tiff"
      [] mimeType = "image/svg+xml" -> ".svg"
      [] OTHER -> ".jpg"

\* uuidv4(): the n-th identifier drawn
uuidv4(n) == "uuid" \o ToString(n)

NoUpload == [contentType |-> "", tmpFilename |-> "", finalFilename |-> "", uploadedTmp |-> FALSE]

(***************************************************************************)
(* GeminiService.retryOperation.  Delays are counted in milliseconds.      *)
(***************************************************************************)
\* what one attempt of the operation may return, and what it may throw
OperationResults == {"receipt A", "receipt B"}

OperationErrors == {"fetch failed", "Failed to parse receipt: Unexpected end of JSON input", "Failed to parse receipt: Required"}

Returns(value) == [ok |-> TRUE, value |-> value, error |-> ""]

Throws(error) == [ok |-> FALSE, value |-> "", error |-> error]

NoOutcome == [ok |-> FALSE, value |-> "", error |-> ""]

\* a retry loop that gives up one failure later
retriesExhausted_OneMore(r) == r < 0

\* if (retries <= 0) throw error;
retriesExhausted(r) == r <= 0

\* Math.min(1000 * 2 ** (this.maxRetries - retries), 10000)
backoffDelay(r) == Min(1000 * 2 ^ (maxRetries - r), 10000)

Init ==
    /\ pc = "idle"
    /\ input = NoReceipt
    /\ before = NoReceipt
    /\ rec = NoReceipt
    /\ ncalc = 0
    /\ now = StartYear
    /\ prev = NoResult
    /\ last = NoResult
    /\ request = NoRequest
    /\ retries = maxRetries
    /\ calls = <<>>
    /\ response = NoResponse
    /\ env = NoEnv
    /\ authRequest = NoFetch
    /\ authPc = "idle"
    /\ invoked = "none"
    /\ authResponse = NoAnswer
    /\ imagePc = "idle"
    /\ storage = {}
    /\ upload = NoUpload
    /\ uuids = 0
    /\ imagePath = ""
    /\ retryPc = "idle"
    /\ attempts = <<>>
    /\ delays = <<>>
    /\ outcome = NoOutcome

\* a receipt record arrives
Receive ==
    /\ pc = "idle"
    /\ \E r \in Receipts :
        /\ input' = r
        /\ before' = r
        /\ rec' = r
    /\ pc' = "received"
    /\ UNCHANGED <<ncalc, now, prev, last>>
    /\ UNCHANGED <<handlerVars, serviceVars>>

\* ReceiptCalculator.calculateDiscrepancy is applied to the current record
Calculate ==
    /\ pc \in {"received", "calculated"}
    /\ ncalc < MaxCalls
    /\ ncalc' = ncalc + 1
    /\ IF calculateDiscrepancyThrows(rec)
       THEN /\ pc' = "failed"
            /\ UNCHANGED <<before, rec>>
       ELSE /\ before' = argumentAfterCall(rec)
            /\ rec' = calculateDiscrepancy(rec)
            /\ pc' = "calculated"
    /\ UNCHANGED <<input, now, prev, last>>
    /\ UNCHANGED <<handlerVars, serviceVars>>

\* ReceiptValidator.validate is applied to the current record
Validate ==
    /\ pc \in {"received", "calculated", "validated"}
    /\ prev' = last
    /\ last' = IF validateThrows(rec) THEN Thrown(now) ELSE Result(validate(rec, now), now)
    /\ pc' = "validated"
    /\ UNCHANGED <<input, before, rec, ncalc, now>>
    /\ UNCHANGED <<handlerVars, serviceVars>>

\* the wall clock read by new Date() advances
Tick ==
    /\ now < StartYear + MaxTicks
    /\ now' = now + 1
    /\ UNCHANGED <<pc, input, before, rec, ncalc, prev, last>>
    /\ UNCHANGED <<handlerVars, serviceVars>>

Next == Receive \/ Calculate \/ Validate \/ Tick

Spec == Init /\ [][Next]_vars

(***************************************************************************)
(* The Parse endpoint: one request, from Parse.handle to its response.     *)
(* Each action is the code between two awaits.                             *)
(***************************************************************************)
\* receiptSchema.parse accepts the record: the required sub-records and
\* fields are there with their types, the optional ones are there or undefined
SchemaAccepts(r) ==
    /\ r.header.k = "object"
    /\ r.header.receipt_number.k = "string"
    /\ r.header.timestamp.k = "string"
    /\ r.header.store_name.k = "string"
    /\ r.header.store_address.k = "string"
    /\ r.items.k = "array"
    /\ \A i \in 1..Len(r.items.v) :
          /\ r.items.v[i].description.k = "string"
          /\ r.items.v[i].quantity.k = "number"
          /\ r.items.v[i].unit_price.k = "number"
          /\ r.items.v[i].total_price.k = "number"
    /\ r.payment.k = "object"
    /\ r.payment.total_amount.k = "number"
    /\ r.payment.currency.k \in {"string", "undefined"}
    /\ r.payment.payment_methods.k = "array"
    /\ \A i \in 1..Len(r.payment.payment_methods.v) :
          /\ r.payment.payment_methods.v[i].amount.k = "number"
          /\ r.payment.payment_methods.v[i].card_four_digit.k \in {"string", "undefined"}
    /\ r.summary.k = "object"
    /\ r.summary.subtotal.k = "number"
    /\ r.summary.taxes.k = "number"
    /\ r.summary.total.k = "number"
    /\ r.summary.discounts.k \in {"number", "undefined"}
    /\ r.summary.service_charge.k \in {"number", "undefined"}
    /\ r.summary.other_charges.k \in {"array", "undefined"}
    /\ \A i \in 1..Len(r.summary.other_charges.v) :
          r.summary.other_charges.v[i].amount.k = "number"
    /\ r.summary.discrepancy.k \in {"number", "undefined"}
    /\ r.summary.service_charge_included.k \in {"boolean", "undefined"}

\* the output of receiptSchema.parse: the currency defaults to "IDR"
receiptSchemaParse(r) ==
    [r EXCEPT !.payment.currency = IF @.k = "undefined" THEN Str("IDR") ELSE @]

\* a handler that runs the validation whatever the request says
shouldValidate_Always(req) == TRUE

\* const { validate = true } = data.body;  if (validate) ...
shouldValidate(req) == req.validate = UndefBool \/ req.validate = Bool(TRUE)

Call(fn, arg) == [fn |-> fn, arg |-> arg]

\* the request arrives and its image is tested
HandleRequest ==
    /\ pc = "idle"
    /\ \E image \in ImageTexts, flag \in {UndefBool, Bool(TRUE), Bool(FALSE)} :
          /\ request' = [image |-> image, validate |-> flag]
          /\ IF image = "" \/ ~ImagePattern(image)
             THEN /\ response' = ErrorResponse
                  /\ pc' = "responded"
             ELSE /\ response' = response
                  /\ pc' = "uploading"
    /\ UNCHANGED <<input, before, rec, ncalc, now, prev, last, retries, calls>>
    /\ UNCHANGED serviceVars

\* the image is stored
UploadImage ==
    /\ pc = "uploading"
    /\ UploadPattern(request.image)
    /\ pc' = "parsing"
    /\ UNCHANGED <<input, before, rec, ncalc, now, prev, last, handlerVars>>
    /\ UNCHANGED serviceVars

\* storing the image throws: the image has no data, or the storage fails
UploadFails ==
    /\ pc = "uploading"
    /\ response' = ErrorResponse
    /\ pc' = "responded"
    /\ UNCHANGED <<input, before, rec, ncalc, now, prev, last, request, retries, calls>>
    /\ UNCHANGED serviceVars

\* one attempt of parseReceipt throws: the model call fails, or its answer is
\* no JSON, or receiptSchema rejects it; retryOperation tries again or gives up
ParseFails ==
    /\ pc = "parsing"
    /\ IF retries <= 0
       THEN /\ response' = ErrorResponse
            /\ pc' = "responded"
            /\ retries' = retries
       ELSE /\ retries' = retries - 1
            /\ UNCHANGED <<pc, response>>
    /\ UNCHANGED <<input, before, rec, ncalc, now, prev, last, request, calls>>
    /\ UNCHANGED serviceVars

\* one attempt of parseReceipt returns: the model's answer passes
\* receiptSchema.parse and calculateDiscrepancy is applied to it
ParseSucceeds ==
    /\ pc = "parsing"
    /\ \E r \in Receipts :
          /\ SchemaAccepts(r)
          /\ ~calculateDiscrepancyThrows(receiptSchemaParse(r))
          /\ input' = r
          /\ before' = argumentAfterCall(receiptSchemaParse(r))
          /\ rec' = calculateDiscrepancy(receiptSchemaParse(r))
          /\ calls' = calls \o <<Call("calculateDiscrepancy", receiptSchemaParse(r))>>
    /\ ncalc' = ncalc + 1
    /\ pc' = "parsed"
    /\ UNCHANGED <<now, prev, last, request, retries, response>>
    /\ UNCHANGED serviceVars

\* the rest of Parse.handle: calculateDiscrepancy on the result, then validate
\* if requested, otherwise enhancedResponseSchema.parse, and the response
Respond ==
    /\ pc = "parsed"
    /\ pc' = "responded"
    /\ ncalc' = ncalc + 1
    /\ IF calculateDiscrepancyThrows(rec)
       THEN /\ calls' = calls \o <<Call("calculateDiscrepancy", rec)>>
            /\ response' = ErrorResponse
            /\ UNCHANGED <<before, rec, prev, last>>
       ELSE LET receiptWithDiscrepancy == calculateDiscrepancy(rec)
            IN /\ before' = argumentAfterCall(rec)
               /\ rec' = receiptWithDiscrepancy
               /\ IF shouldValidate(request)
                  THEN /\ calls' = calls \o <<Call("calculateDiscrepancy", rec),
                                              Call("validate", receiptWithDiscrepancy)>>
                       /\ prev' = last
                       /\ IF validateThrows(receiptWithDiscrepancy)
                          THEN /\ last' = Thrown(now)
                               /\ response' = ErrorResponse
                          ELSE /\ last' = Result(validate(receiptWithDiscrepancy, now), now)
                               /\ response' =
                                     [status |-> 200, body |-> receiptWithDiscrepancy,
                                      image_path |-> TRUE,
                                      validation |->
                                          Result(validate(receiptWithDiscrepancy, now), now)]
                  ELSE /\ calls' = calls \o <<Call("calculateDiscrepancy", rec)>>
                       /\ UNCHANGED <<prev, last>>
                       /\ response' =
                             IF SchemaAccepts(receiptWithDiscrepancy)
                             THEN [status |-> 200, body |-> receiptWithDiscrepancy,
                                   image_path |-> FALSE, validation |-> NoResult]
                             ELSE ErrorResponse
    /\ UNCHANGED <<input, now, request, retries>>
    /\ UNCHANGED serviceVars

HandlerNext ==
    HandleRequest \/ UploadImage \/ UploadFails \/ ParseFails \/ ParseSucceeds \/ Respond

HandlerSpec == Init /\ [][HandlerNext]_vars

(***************************************************************************)
(* A request to the app: the middleware mounted on its path, then the      *)
(* handler of its route.  The worker receives env with every request.      *)
(***************************************************************************)
receiptVars == <<pc, input, before, rec, ncalc, now, prev, last>>

\* app.fetch(request, env): a request arrives; cors() passes it on
Fetch ==
    /\ authPc \in {"idle", "answered"}
    /\ \E method \in Methods, path \in Paths, header \in AuthorizationHeaders, key \in ApiKeys :
          /\ authRequest' = [method |-> method, path |-> path, authorization |-> header]
          /\ env' = [API_KEY |-> key]
          /\ authPc' = IF UnderApi(path) THEN "middleware" ELSE "routing"
    /\ invoked' = "none"
    /\ authResponse' = NoAnswer
    /\ UNCHANGED <<receiptVars, handlerVars, imageVars, retryVars>>

\* authMiddleware runs on a path under /api/
Authenticate ==
    /\ authPc = "middleware"
    /\ LET verdict == authMiddleware(authRequest, env)
       IN IF verdict.next
          THEN /\ authPc' = "routing"
               /\ authResponse' = authResponse
          ELSE /\ authPc' = "answered"
               /\ authResponse' = verdict.response
    /\ UNCHANGED <<env, authRequest, invoked>>
    /\ UNCHANGED <<receiptVars, handlerVars, imageVars, retryVars>>

\* the handler of the route runs and answers
Dispatch ==
    /\ authPc = "routing"
    /\ invoked' = Route(authRequest.method, authRequest.path)
    /\ authResponse' = [status |-> CASE invoked' = "notFound" -> 404
                                     [] invoked' = "redirect" -> 302
                                     [] OTHER -> 200,
                        error |-> ""]
    /\ authPc' = "answered"
    /\ UNCHANGED <<env, authRequest>>
    /\ UNCHANGED <<receiptVars, handlerVars, imageVars, retryVars>>

AuthNext == Fetch \/ Authenticate \/ Dispatch

AuthSpec == Init /\ [][AuthNext]_vars

(***************************************************************************)
(* One execution of processAndUploadImage after the other.  Each await     *)
(* on the storage or on the image proxy either returns or throws; a throw  *)
(* leaves the method at once, there is no catch or finally in it.          *)
(***************************************************************************)
otherThanImageVars == <<receiptVars, handlerVars, authVars, retryVars>>

\* the data URL is matched and decoded and the file names are chosen
ProcessImage ==
    /\ imagePc \in {"idle", "returned", "thrown"}
    /\ uuids < MaxUuids
    /\ \E mime \in MimeTypes, data \in Base64Texts :
          IF ~DataUrlMatches(mime, data)
          THEN /\ imagePc' = "thrown"
               /\ upload' = NoUpload
               /\ uuids' = uuids
          ELSE /\ uuids' = uuids + 1
               /\ upload' = [contentType |-> mime,
                             tmpFilename |-> "tmp/" \o uuidv4(uuids') \o getFileExtensionFromMimeType(mime),
                             finalFilename |-> uuidv4(uuids') \o ".webp",
                             uploadedTmp |-> FALSE]
               /\ imagePc' = IF AtobAccepts(data) THEN "uploadTmp" ELSE "thrown"
    /\ imagePath' = ""
    /\ UNCHANGED storage
    /\ UNCHANGED otherThanImageVars

\* 1. await minioService.uploadObject(tmpFilename, ...) returns
UploadTmp ==
    /\ imagePc = "uploadTmp"
    /\ storage' = storage \cup {upload.tmpFilename}
    /\ upload' = [upload EXCEPT !.uploadedTmp = TRUE]
    /\ imagePc' = "fetchImage"
    /\ UNCHANGED <<uuids, imagePath>>
    /\ UNCHANGED otherThanImageVars

\* 4. await imgproxyService.fetchImage(processedImageUrl) returns
FetchImage ==
    /\ imagePc = "fetchImage"
    /\ imagePc' = "uploadFinal"
    /\ UNCHANGED <<storage, upload, uuids, imagePath>>
    /\ UNCHANGED otherThanImageVars

\* 5. await minioService.uploadObject("receipts/" + finalFilename, ...) returns
UploadFinal ==
    /\ imagePc = "uploadFinal"
    /\ storage' = storage \cup {"receipts/" \o upload.finalFilename}
    /\ imagePc' = "deleteTmp"
    /\ UNCHANGED <<upload, uuids, imagePath>>
    /\ UNCHANGED otherThanImageVars

\* 6. await minioService.deleteObject(tmpFilename) returns, and the method
\* returns the path of the image
DeleteTmp ==
    /\ imagePc = "deleteTmp"
    /\ storage' = storage \ {upload.tmpFilename}
    /\ imagePath' = "/images/" \o upload.finalFilename
    /\ imagePc' = "returned"
    /\ UNCHANGED <<upload, uuids>>
    /\ UNCHANGED otherThanImageVars

\* the awaited call of the step throws: the storage or the image proxy is
\* unreachable or answers with an error
StepThrows ==
    /\ imagePc \in {"uploadTmp", "fetchImage", "uploadFinal", "deleteTmp"}
    /\ imagePc' = "thrown"
    /\ UNCHANGED <<storage, upload, uuids, imagePath>>
    /\ UNCHANGED otherThanImageVars

ImageNext ==
    ProcessImage \/ UploadTmp \/ FetchImage \/ UploadFinal \/ DeleteTmp \/ StepThrows

ImageSpec == Init /\ [][ImageNext]_vars

(***************************************************************************)
(* One call of retryOperation(operation) with the default retries.  An     *)
(* attempt is one await of operation(); the wait is one setTimeout.        *)
(***************************************************************************)
otherThanRetryVars == <<receiptVars, request, calls, response, authVars, imageVars>>

\* this.retryOperation(parseOperation): retries = this.maxRetries
RetryOperation ==
    /\ retryPc = "idle"
    /\ retries' = maxRetries
    /\ retryPc' = "attempting"
    /\ UNCHANGED <<attempts, delays, outcome>>
    /\ UNCHANGED otherThanRetryVars

\* return await operation(): the attempt returns a value
AttemptReturns ==
    /\ retryPc = "attempting"
    /\ \E value \in OperationResults :
          /\ attempts' = Append(attempts, Returns(value))
          /\ outcome' = Returns(value)
    /\ retryPc' = "returned"
    /\ UNCHANGED <<retries, delays>>
    /\ UNCHANGED otherThanRetryVars

\* the attempt throws: the error is rethrown, or the backoff wait starts
AttemptThrows ==
    /\ retryPc = "attempting"
    /\ \E error \in OperationErrors :
          /\ attempts' = Append(attempts, Throws(error))
          /\ IF retriesExhausted(retries)
             THEN /\ outcome' = Throws(error)
                  /\ retryPc' = "thrown"
                  /\ delays' = delays
             ELSE /\ delays' = Append(delays, backoffDelay(retries))
                  /\ retryPc' = "waiting"
                  /\ outcome' = outcome
    /\ UNCHANGED retries
    /\ UNCHANGED otherThanRetryVars

\* the timer fires: return this.retryOperation(operation, retries - 1)
TimerFires ==
    /\ retryPc = "waiting"
    /\ retries' = retries - 1
    /\ retryPc' = "attempting"
    /\ UNCHANGED <<attempts, delays, outcome>>
    /\ UNCHANGED otherThanRetryVars

RetryNext == RetryOperation \/ AttemptReturns \/ AttemptThrows \/ TimerFires

\* every attempt comes to an end, by returning or by throwing, and every
\* timer fires
RetrySpec ==
    /\ Init
    /\ [][RetryNext]_vars
    /\ WF_vars(AttemptReturns \/ AttemptThrows)
    /\ WF_vars(TimerFires)

(***************************************************************************)
(* Properties                                                              *)
(***************************************************************************)
Validated == last.k = "object"

ValidatedTwice == prev.k = "object" /\ last.k = "object"

Calculated == ncalc >= 1

HasSeverity(issues, severity) == \E i \in 1..Len(issues) : issues[i].severity = severity

\* C1: the valid flag returned by validate is true exactly when the returned
\* issue list holds no issue of severity error; fatal, warning and info issues
\* do not change it.
C1_ValidIffNoErrorIssue ==
    Validated => (last.valid <=> ~HasSeverity(last.issues, "error"))

C1_Witness ==
    /\ Validated
    /\ last.valid
    /\ HasSeverity(last.issues, "fatal")
    /\ HasSeverity(last.issues, "warning")
    /\ HasSeverity(last.issues, "info")

\* C2: the confidence score returned by validate lies between 0 and 1
\* (10000 ten-thousandths), whatever issues were emitted.
C2_ConfidenceScoreBounded ==
    Validated => (0 <= last.confidence_score /\ last.confidence_score <= 10000)

C2_Witness ==
    /\ Validated
    /\ last.confidence_score = 0
    /\ confidenceReduction(last.issues) > 10000
    /\ \E i \in 1..Len(last.issues) :
          issueWeight(last.issues[i]) < baseWeight(last.issues[i].severity)

\* C3: applying calculateDiscrepancy to its own output leaves
\* summary.discrepancy and summary.service_charge_included as the first
\* application set them.
C3_CalculatorIdempotent ==
    ncalc >= 2 =>
        /\ rec.summary.discrepancy = before.summary.discrepancy
        /\ rec.summary.service_charge_included = before.summary.service_charge_included

C3_Witness ==
    /\ ncalc = 2
    /\ ~CalculatorSkips(input)
    /\ input.summary.discrepancy # rec.summary.discrepancy
    /\ input.summary.service_charge_included # rec.summary.service_charge_included
    /\ rec.summary.discrepancy.n # 0

\* the issues that do not come from comparing the timestamp with the clock
WithoutClockIssues(issues) ==
    SelectSeq(issues, LAMBDA i : i.type \notin {"timestamp_future", "timestamp_too_old"})

\* C4 as stated: two runs of validate on the same receipt, at any two moments,
\* return the same issue list.
C4_SameIssuesAtAnyTwoMoments ==
    ValidatedTwice => prev.issues = last.issues

\* C4 as amended: two runs of validate on the same receipt at two moments
\* return issue lists that agree, in content and order, on every issue other
\* than TIMESTAMP_FUTURE and TIMESTAMP_TOO_OLD, and agree entirely when the
\* timestamp is absent, empty or not parsable.
C4_SameIssuesApartFromClock ==
    ValidatedTwice =>
        /\ WithoutClockIssues(prev.issues) = WithoutClockIssues(last.issues)
        /\ (~Truthy(rec.header) \/ ~Truthy(rec.header.timestamp)
            \/ DateParse(rec.header.timestamp.s).nan) => prev.issues = last.issues

C4_Witness ==
    /\ ValidatedTwice
    /\ prev.at < last.at
    /\ prev.issues # last.issues
    /\ Len(WithoutClockIssues(last.issues)) >= 2

\* C5: after calculateDiscrepancy on a receipt with items, summary and a
\* numeric total, service_charge_included is true exactly when the discrepancy
\* with the service charge is strictly smaller in absolute value than the one
\* without it, and summary.discrepancy has the smaller absolute value of the two.
C5_ServiceChargeInference ==
    (Calculated /\ before.items.k = "array" /\ before.summary.k = "object"
        /\ before.summary.total.k = "number") =>
        /\ rec.summary.service_charge_included.k = "boolean"
        /\ rec.summary.service_charge_included.b =
              (Abs(discrepancyWithServiceCharge(before))
                  < Abs(discrepancyWithoutServiceCharge(before)))
        /\ rec.summary.discrepancy.k = "number"
        /\ Abs(rec.summary.discrepancy.n) =
              Min(Abs(discrepancyWithServiceCharge(before)),
                  Abs(discrepancyWithoutServiceCharge(before)))

\* a tie between the two hypotheses with a service charge present
C5_Witness ==
    /\ Calculated
    /\ ~CalculatorSkips(before)
    /\ before.summary.service_charge.k = "number"
    /\ before.summary.service_charge.n > 0
    /\ Abs(discrepancyWithServiceCharge(before))
          = Abs(discrepancyWithoutServiceCharge(before))
    /\ rec.summary.service_charge_included = Bool(FALSE)

\* the terms of the expected total as the claim C6 lists them
ClaimedItemsSum(r) ==
    SumSeq([i \in 1..Len(r.items.v) |->
               IF r.items.v[i].total_price.k = "number"
               THEN r.items.v[i].total_price.n ELSE 0])

ClaimedOtherCharges(r) ==
    SumSeq([i \in 1..Len(r.summary.other_charges.v) |->
               IF r.summary.other_charges.v[i].amount.k = "number"
               THEN r.summary.other_charges.v[i].amount.n ELSE 0])

ClaimedTerm(x) == IF x.k = "number" THEN x.n ELSE 0

ClaimedExpectedWithout(r) ==
    ClaimedItemsSum(r) + ClaimedTerm(r.summary.taxes) + ClaimedOtherCharges(r)
        - ClaimedTerm(r.summary.discounts)

ClaimedExpectedWith(r) ==
    ClaimedItemsSum(r) + ClaimedTerm(r.summary.taxes)
        + ClaimedTerm(r.summary.service_charge) + ClaimedOtherCharges(r)
        - ClaimedTerm(r.summary.discounts)

\* C6 as stated: the two discrepancies are the stated total minus the expected
\* totals, and they differ by exactly the service charge.
C6_DiscrepanciesUnrounded ==
    (Calculated /\ ~CalculatorSkips(before)) =>
        /\ discrepancyWithServiceCharge(before)
              = before.summary.total.n - ClaimedExpectedWith(before)
        /\ discrepancyWithoutServiceCharge(before)
              = before.summary.total.n - ClaimedExpectedWithout(before)
        /\ discrepancyWithoutServiceCharge(before) - discrepancyWithServiceCharge(before)
              = ClaimedTerm(before.summary.service_charge)

\* C6 as amended: each discrepancy is the stated total minus the expected
\* total, rounded to 2 decimals; the expected totals are the sums of the claim
\* (absent and non-numeric terms count as 0) and differ by exactly the service
\* charge; summary.discrepancy is one of the two discrepancies.
C6_DiscrepanciesRounded ==
    (Calculated /\ ~CalculatorSkips(before)) =>
        /\ discrepancyWithServiceCharge(before)
              = ToFixed2(before.summary.total.n - ClaimedExpectedWith(before))
        /\ discrepancyWithoutServiceCharge(before)
              = ToFixed2(before.summary.total.n - ClaimedExpectedWithout(before))
        /\ expectedTotalWithServiceCharge(before) - expectedTotalWithoutServiceCharge(before)
              = ClaimedTerm(before.summary.service_charge)
        /\ rec.summary.discrepancy.n \in
              {ToFixed2(before.summary.total.n - ClaimedExpectedWith(before)),
               ToFixed2(before.summary.total.n - ClaimedExpectedWithout(before))}

\* every kind of term present, one of them non-numeric, and a rounding
C6_Witness ==
    /\ Calculated
    /\ ~CalculatorSkips(before)
    /\ Len(before.items.v) = 2
    /\ before.summary.taxes.k = "number"
    /\ before.summary.discounts.k = "number"
    /\ before.summary.service_charge.k = "number"
    /\ before.summary.other_charges.k = "array"
    /\ \E i \in 1..Len(before.summary.other_charges.v) :
          before.summary.other_charges.v[i].amount.k = "number"
    /\ rec.summary.discrepancy.n
          # before.summary.total.n - ClaimedExpectedWith(before)
    /\ rec.summary.discrepancy.n
          # before.summary.total.n - ClaimedExpectedWithout(before)

\* C7: calculateDiscrepancy returns its argument unchanged when items is
\* absent, summary is absent or summary.total is not a number.
C7_CalculatorNoOp ==
    (Calculated /\ (before.items.k # "array" \/ before.summary.k # "object"
                    \/ before.summary.total.k # "number")) =>
        /\ rec = before
        /\ pc \in {"calculated", "validated"}

C7_Witness ==
    /\ Calculated
    /\ before.items.k = "array"
    /\ before.summary.k = "object"
    /\ before.summary.total.k = "null"
    /\ before.summary.discrepancy.k = "undefined"
    /\ rec = before

\* C8: calculateDiscrepancy leaves its argument as it was, and its result
\* differs from the argument in nothing but summary.discrepancy and
\* summary.service_charge_included.
C8_CalculatorFrame ==
    /\ ncalc = 1 => before = input
    /\ Calculated =>
          [rec EXCEPT !.summary.discrepancy = before.summary.discrepancy,
                      !.summary.service_charge_included =
                          before.summary.service_charge_included] = before

C8_Witness ==
    /\ ncalc = 1
    /\ before = input
    /\ rec # input
    /\ rec.summary.discrepancy # input.summary.discrepancy
    /\ rec.summary.service_charge_included # input.summary.service_charge_included
    /\ input.summary.other_charges.k = "array"
    /\ input.summary.discounts.k = "number"

\* C9: a receipt whose timestamp is present but not parsable as a date gets a
\* TIMESTAMP_INVALID issue of severity error, and so valid = false.
C9_UnparsableTimestampIsError ==
    (Validated /\ Truthy(rec.header) /\ Truthy(rec.header.timestamp)
        /\ DateParse(rec.header.timestamp.s).nan) =>
        /\ \E i \in 1..Len(last.issues) :
              /\ last.issues[i].type = "timestamp_invalid"
              /\ last.issues[i].severity = "error"
        /\ ~last.valid

\* the position of the check that emits an issue, in the order in which
\* validate calls the checks
CodeRule(issue) ==
    CASE issue.type \in {"timestamp_future", "timestamp_too_old", "timestamp_invalid"} -> 1
      [] issue.type = "unusual_tax_rate" -> 2
      [] issue.type = "items_subtotal_mismatch" -> 3
      [] issue.type = "invalid_currency_code" -> 4
      [] issue.type = "suspicious_receipt_number" -> 5
      [] issue.type = "item_price_calculation" -> 6
      [] issue.type = "payment_methods_mismatch" -> 7
      [] issue.type \in {"empty_store_name", "empty_store_address"} -> 8
      [] issue.type = "duplicate_items" -> 9
      [] issue.type = "timestamp_format" -> 10
      [] issue.type = "summary_calculation_error"
            /\ issue.message[1].s = "Calculated total (" -> 11
      [] issue.type = "negative_amount" -> 12
      [] issue.type = "card_number_format" -> 13
      [] issue.type = "discrepancy_explanation" -> 14
      [] issue.type = "service_charge_calculation" -> 15
      [] issue.type = "summary_calculation_error"
            /\ issue.message[1].s = "Total calculation " -> 15
      [] issue.type = "total_too_small" -> 16
      [] OTHER -> 0

\* the number of the rule that emits an issue in the rule catalog of the
\* specification, which lists the timestamp format second
CatalogRule(issue) ==
    CASE CodeRule(issue) = 10 -> 2
      [] CodeRule(issue) \in 2..9 -> CodeRule(issue) + 1
      [] OTHER -> CodeRule(issue)

\* C10 as stated: the issues are ordered by the rule catalog of the
\* specification, a TIMESTAMP_FORMAT issue before every issue of rules 3 to 16.
C10_OrderedByCatalog ==
    Validated =>
        \A i, j \in 1..Len(last.issues) :
            i < j => CatalogRule(last.issues[i]) <= CatalogRule(last.issues[j])

\* C10 as amended: the issues are ordered by the order in which validate runs
\* the checks: timestamp sanity, tax rate, items against subtotal, currency,
\* receipt number, item prices, payment methods, store info, duplicate items,
\* timestamp format, summary arithmetic, negative amounts, card format,
\* discrepancy, service charge, total floor.
C10_OrderedByExecution ==
    Validated =>
        /\ \A i \in 1..Len(last.issues) : CodeRule(last.issues[i]) \in 1..16
        /\ \A i, j \in 1..Len(last.issues) :
              i < j => CodeRule(last.issues[i]) <= CodeRule(last.issues[j])

C10_Witness ==
    /\ Validated
    /\ \E i, j, l \in 1..Len(last.issues) :
          /\ i < j /\ j < l
          /\ last.issues[i].type = "unusual_tax_rate"
          /\ last.issues[j].type = "timestamp_format"
          /\ last.issues[l].type = "total_too_small"

\* no issue of the list comes from one of the checks numbered in rules
Silent(issues, rules) == \A i \in 1..Len(issues) : CodeRule(issues[i]) \notin rules

\* the NEGATIVE_AMOUNT issues about the summary
IsSummaryNegative(issue) ==
    /\ issue.type = "negative_amount"
    /\ issue.message[1].s \in {"Subtotal is negative", "Total amount is negative"}

\* C11: on a receipt in which any sub-record or field may be absent,
\* neither calculateDiscrepancy nor validate throws, both return, and a check
\* whose required sub-record or field is missing emits no issue.
C11_AbsentFieldsNeverThrow ==
    /\ pc # "failed"
    /\ prev.k # "error"
    /\ last.k # "error"
    /\ Validated =>
        /\ Absent(rec.header) => Silent(last.issues, {1, 5, 8, 10})
        /\ Absent(rec.header.timestamp) => Silent(last.issues, {1, 10})
        /\ Absent(rec.header.receipt_number) => Silent(last.issues, {5})
        /\ Absent(rec.items) =>
              /\ Silent(last.issues, {3, 6, 9})
              /\ \A i \in 1..Len(last.issues) :
                    last.issues[i].type = "negative_amount" => IsSummaryNegative(last.issues[i])
        /\ Absent(rec.payment) => Silent(last.issues, {4, 7, 13})
        /\ Absent(rec.payment.currency) => Silent(last.issues, {4})
        /\ Absent(rec.payment.total_amount) => Silent(last.issues, {7})
        /\ Absent(rec.payment.payment_methods) => Silent(last.issues, {7, 13})
        /\ Absent(rec.summary) =>
              /\ Silent(last.issues, {2, 3, 11, 14, 15, 16})
              /\ \A i \in 1..Len(last.issues) : ~IsSummaryNegative(last.issues[i])
        /\ Absent(rec.summary.subtotal) => Silent(last.issues, {2, 3, 11, 15})
        /\ Absent(rec.summary.taxes) => Silent(last.issues, {2, 11})
        /\ Absent(rec.summary.total) => Silent(last.issues, {11, 16})
        /\ Absent(rec.summary.discrepancy) => Silent(last.issues, {14})

\* a receipt with every sub-record absent went through both functions
C11_Witness ==
    /\ Validated
    /\ pc = "validated"
    /\ ncalc >= 1
    /\ Absent(rec.header)
    /\ Absent(rec.items)
    /\ Absent(rec.payment)
    /\ Absent(rec.summary)
    /\ last.issues = <<>>
    /\ last.confidence_score = 10000

\* the weights of the severities as the claim C12 lists them, in ten-thousandths
ClaimedWeight(severity) ==
    CASE severity = "fatal" -> 6000
      [] severity = "error" -> 3000
      [] severity = "warning" -> 1000
      [] severity = "info" -> 300

\* the issue types the claim C12 names as numerical
ClaimedNumericalTypes ==
    {"items_subtotal_mismatch", "summary_calculation_error", "item_price_calculation",
     "payment_methods_mismatch", "discrepancy_explanation"}

\* what an issue adds to R: its full weight outside the numerical types, and
\* the weight the code gave it, at most the full one, inside them
ClaimedContribution(issue) ==
    IF issue.type \in ClaimedNumericalTypes
    THEN issueWeight(issue)
    ELSE ClaimedWeight(issue.severity)

\* C12: confidence_score is max(0, 1 - R) rounded to two decimals, R the sum
\* over the issues of the severity weights 0.6, 0.3, 0.1 and 0.03; an issue
\* outside the five numerical types adds exactly its full weight, an issue
\* inside them at most its full weight.
C12_ConfidenceScoreFormula ==
    Validated =>
        LET R == SumSeq([i \in 1..Len(last.issues) |-> ClaimedContribution(last.issues[i])])
            score == IF R >= 10000 THEN 0 ELSE 10000 - R
        IN /\ last.confidence_score = ((score + 50) \div 100) * 100
           /\ \A i \in 1..Len(last.issues) :
                 /\ 0 <= issueWeight(last.issues[i])
                 /\ issueWeight(last.issues[i]) <= ClaimedWeight(last.issues[i].severity)
                 /\ last.issues[i].type \notin ClaimedNumericalTypes
                       => issueWeight(last.issues[i]) = ClaimedWeight(last.issues[i].severity)

\* fatal, warning and info issues outside the numerical types next to a scaled
\* numerical one, with a score above 0
C12_Witness ==
    /\ Validated
    /\ last.confidence_score > 0
    /\ \E i, j, l, n \in 1..Len(last.issues) :
          /\ last.issues[i].severity = "fatal"
          /\ last.issues[j].severity = "warning"
          /\ last.issues[j].type \notin ClaimedNumericalTypes
          /\ last.issues[l].severity = "info"
          /\ last.issues[n].type \in ClaimedNumericalTypes
          /\ 0 < issueWeight(last.issues[n])
          /\ issueWeight(last.issues[n]) < ClaimedWeight(last.issues[n].severity)

\* the numbers an issue reports: the values its message formats with
\* toFixed(2), signed, in hundredths
ReportedValues(issue) ==
    LET fixed == SelectSeq(issue.message, LAMBDA tok : tok.t = "fixed" /\ tok.d = 2)
    IN [i \in 1..Len(fixed) |-> fixed[i].n]

\* base * min(1, pct / 10) with pct = |a - b| / max(a, b) * 100, cut to a
\* ten-thousandth; the full weight when max(a, b) is 0
ClaimedAdjustedWeight(base, a, b) ==
    LET m == Max(a, b)
        d == Abs(a - b)
    IN CASE m = 0 -> base
         [] m > 0 -> IF 10 * d >= m THEN base ELSE (base * 10 * d) \div m
         [] m < 0 -> -((base * 10 * d) \div (-m))

\* C13: an issue of a numerical type that reports a computed value a and a
\* stated value b weighs base * min(1, pct / 10), pct = |a - b| / max(a, b) * 100;
\* it weighs the full base only when max(a, b) is 0 or it reports fewer than
\* two numbers.
C13_WeightScaledByReportedValues ==
    Validated =>
        \A i \in 1..Len(last.issues) :
            last.issues[i].type \in ClaimedNumericalTypes =>
                LET values == ReportedValues(last.issues[i])
                    base == ClaimedWeight(last.issues[i].severity)
                IN issueWeight(last.issues[i]) =
                       IF Len(values) < 2
                       THEN base
                       ELSE ClaimedAdjustedWeight(base, values[1], values[2])

\* the summary of scenario D: subtotal s, taxes t, a service charge c > 0, a
\* total of s + t + c, no discounts and no other charges
ScenarioD(r) ==
    /\ r.summary.k = "object"
    /\ r.summary.subtotal.k = "number"
    /\ r.summary.taxes.k = "number"
    /\ r.summary.service_charge.k = "number"
    /\ r.summary.service_charge.n > 0
    /\ r.summary.total.k = "number"
    /\ r.summary.total.n
          = r.summary.subtotal.n + r.summary.taxes.n + r.summary.service_charge.n
    /\ Absent(r.summary.discounts)
    /\ Absent(r.summary.other_charges)

ScenarioA(r) ==
    /\ r.items.k = "array"
    /\ r.summary.k = "object"
    /\ r.summary.subtotal.k = "number"
    /\ r.summary.taxes.k = "number"
    /\ r.summary.total.k = "number"
    /\ ClaimedItemsSum(r) = r.summary.subtotal.n
    /\ r.summary.total.n = r.summary.subtotal.n + r.summary.taxes.n
    /\ Absent(r.summary.service_charge)
    /\ Absent(r.summary.discounts)
    /\ Absent(r.summary.other_charges)

\* C15: on a receipt of scenario A, calculateDiscrepancy yields
\* discrepancy = 0 with service_charge_included false, and validate on the
\* annotated receipt emits no SUMMARY_CALCULATION_ERROR.
C15_ScenarioAClean ==
    (Calculated /\ ScenarioA(before)) =>
        /\ rec.summary.discrepancy = Num(0)
        /\ rec.summary.service_charge_included = Bool(FALSE)
        /\ Validated =>
              \A i \in 1..Len(last.issues) :
                  last.issues[i].type # "summary_calculation_error"

\* scenario A on a record that arrived with a discrepancy and the flag set
C15_Witness ==
    /\ Calculated
    /\ Validated
    /\ ScenarioA(before)
    /\ input.summary.discrepancy.k = "number"
    /\ input.summary.discrepancy.n # 0
    /\ input.summary.service_charge_included = Bool(TRUE)
    /\ rec.summary.discrepancy = Num(0)
    /\ rec.summary.service_charge_included = Bool(FALSE)
    /\ Truthy(rec.summary.subtotal) /\ Truthy(rec.summary.taxes)

TotalTooSmallIssues(issues) == SelectSeq(issues, LAMBDA i : i.type = "total_too_small")

\* C16: a receipt whose summary.total is a number below 1000 gets exactly
\* one TOTAL_TOO_SMALL issue, of severity fatal, which alone does not make
\* valid false, and a confidence_score of at most 0.4; a receipt whose total is
\* 1000 or more, or absent, gets none.
C16_TotalBelowThresholdIsFatal ==
    Validated =>
        /\ (rec.summary.k = "object" /\ rec.summary.total.k = "number"
               /\ rec.summary.total.n < 1000 * Unit) =>
              /\ Len(TotalTooSmallIssues(last.issues)) = 1
              /\ TotalTooSmallIssues(last.issues)[1].severity = "fatal"
              /\ (last.valid \/ HasSeverity(last.issues, "error"))
              /\ last.confidence_score <= 4000
        /\ (Absent(rec.summary) \/ Absent(rec.summary.total)
               \/ (rec.summary.total.k = "number" /\ rec.summary.total.n >= 1000 * Unit)) =>
              TotalTooSmallIssues(last.issues) = <<>>

\* the pair the claim C17 groups by
ClaimedKey(item) == <<ToLowerCase(Trim(item.description.s)), item.unit_price>>

\* the groups of more than one member among the items at the positions S
ClaimedGroups(items, S) ==
    {G \in {{l \in S : ClaimedKey(items[l]) = ClaimedKey(items[j])} : j \in S} :
        Cardinality(G) > 1}

DuplicateIssues(issues) == SelectSeq(issues, LAMBDA i : i.type = "duplicate_items")

\* the positions an issue's message lists, in the order it lists them
ListedPositions(issue) ==
    LET ints == SelectSeq(issue.message, LAMBDA tok : tok.t = "int")
    IN [i \in 1..Len(ints) |-> ints[i].n]

\* one info issue per group, listing the members of the group in item order
OneIssuePerGroup(issues, groups) ==
    /\ Len(issues) = Cardinality(groups)
    /\ \A i \in 1..Len(issues) :
          /\ issues[i].severity = "info"
          /\ {ListedPositions(issues[i])[l] : l \in 1..Len(ListedPositions(issues[i]))}
                \in groups
          /\ \A l, n \in 1..Len(ListedPositions(issues[i])) :
                l < n => ListedPositions(issues[i])[l] < ListedPositions(issues[i])[n]
    /\ \A i, j \in 1..Len(issues) :
          ListedPositions(issues[i]) = ListedPositions(issues[j]) => i = j

\* C17 as stated: validate groups all items by (trimmed, lower-cased
\* description; unit_price) and emits one DUPLICATE_ITEMS info issue per group
\* of more than one member, listing the 1-based positions in item order.
C17_DuplicatesAmongAllItems ==
    (Validated /\ rec.items.k = "array") =>
        OneIssuePerGroup(DuplicateIssues(last.issues),
                         ClaimedGroups(rec.items.v, 1..Len(rec.items.v)))

\* C17 as amended: validate groups the items that have a non-empty description
\* by (trimmed, lower-cased description; unit_price) and emits one
\* DUPLICATE_ITEMS info issue per group of more than one member, listing the
\* 1-based positions in item order; items without a description are in no group.
C17_DuplicatesAmongDescribedItems ==
    (Validated /\ rec.items.k = "array") =>
        OneIssuePerGroup(DuplicateIssues(last.issues),
                         ClaimedGroups(rec.items.v,
                                       {j \in 1..Len(rec.items.v) :
                                           rec.items.v[j].description.k = "string"
                                           /\ rec.items.v[j].description.s # ""}))

\* the first and the third of three items are duplicates: "items 1, 3"
C17_Witness ==
    /\ Validated
    /\ rec.items.k = "array"
    /\ Len(rec.items.v) = 3
    /\ rec.items.v[1].description # rec.items.v[3].description
    /\ Len(DuplicateIssues(last.issues)) = 1
    /\ ListedPositions(DuplicateIssues(last.issues)[1]) = <<1, 3>>

\* the sum of the amounts of the payment methods
ClaimedMethodsSum(r) ==
    SumSeq([i \in 1..Len(r.payment.payment_methods.v) |->
               IF r.payment.payment_methods.v[i].amount.k = "number"
               THEN r.payment.payment_methods.v[i].amount.n ELSE 0])

PaymentMismatchIssues(issues) ==
    SelectSeq(issues, LAMBDA i : i.type = "payment_methods_mismatch")

\* C18: when payment_methods and total_amount are both present, validate
\* emits exactly one PAYMENT_METHODS_MISMATCH warning, carrying the sum and the
\* total amount to two decimals, if they differ by more than 0.01, and none
\* if they differ by at most 0.01.
C18_PaymentMethodsMismatch ==
    (Validated /\ rec.payment.k = "object" /\ rec.payment.payment_methods.k = "array"
        /\ rec.payment.total_amount.k = "number") =>
        IF Abs(ClaimedMethodsSum(rec) - rec.payment.total_amount.n) > 10
        THEN /\ Len(PaymentMismatchIssues(last.issues)) = 1
             /\ PaymentMismatchIssues(last.issues)[1].severity = "warning"
             /\ ReportedValues(PaymentMismatchIssues(last.issues)[1])
                   = <<ToFixed2(ClaimedMethodsSum(rec)) \div 10,
                       ToFixed2(rec.payment.total_amount.n) \div 10>>
        ELSE PaymentMismatchIssues(last.issues) = <<>>

\* the request succeeded: the model was reached and the response is a receipt
Succeeded == response.status = 200

CallsOf(fn) == {i \in 1..Len(calls) : calls[i].fn = fn}

\* C19: in a parse request that reaches the model and succeeds, the handler
\* applies calculateDiscrepancy to the extracted record before validate,
\* validate receives the Calculator's annotated output, and its result is the
\* validation of the response; when the request sets validate = false,
\* validate is not called and the response has no validation.
C19_CalculatorBeforeValidator ==
    Succeeded =>
        LET extracted == receiptSchemaParse(input)
            annotated == calculateDiscrepancy(extracted)
        IN /\ \E i \in CallsOf("calculateDiscrepancy") : calls[i].arg = extracted
           /\ IF request.validate = Bool(FALSE)
              THEN /\ CallsOf("validate") = {}
                   /\ response.validation.k = "undefined"
              ELSE /\ CallsOf("validate") # {}
                   /\ \A j \in CallsOf("validate") :
                         /\ calls[j].arg = annotated
                         /\ \E i \in CallsOf("calculateDiscrepancy") :
                               /\ i < j
                               /\ calls[j].arg = calculateDiscrepancy(calls[i].arg)
                   /\ response.validation.k = "object"
                   /\ response.validation.valid = validate(annotated, now).valid
                   /\ response.validation.issues = validate(annotated, now).issues
                   /\ response.validation.confidence_score
                         = validate(annotated, now).confidence_score
                   /\ response.body = annotated

\* a request without the validate field on a record that the Calculator
\* changes and the Validator finds issues in
C19_Witness ==
    /\ Succeeded
    /\ request.validate = UndefBool
    /\ calculateDiscrepancy(receiptSchemaParse(input)) # input
    /\ input.summary.discrepancy # response.body.summary.discrepancy
    /\ Len(calls) = 3
    /\ calls[3].fn = "validate"
    /\ Len(response.validation.issues) > 0
    /\ retries < maxRetries

\* the ITEM_PRICE_CALCULATION issues that name the item at position j
ItemPriceIssuesNaming(issues, j) ==
    SelectSeq(issues, LAMBDA i : i.type = "item_price_calculation"
                                 /\ ListedPositions(i) = <<j>>)

\* C20: for every item whose quantity, unit_price and total_price are all
\* numbers, validate emits one ITEM_PRICE_CALCULATION warning naming the
\* item's 1-based index if |quantity * unit_price - total_price| > 0.01, and
\* none otherwise.
C20_ItemPriceCalculation ==
    (Validated /\ rec.items.k = "array") =>
        \A j \in 1..Len(rec.items.v) :
            LET item == rec.items.v[j]
                named == ItemPriceIssuesNaming(last.issues, j)
            IN (item.quantity.k = "number" /\ item.unit_price.k = "number"
                   /\ item.total_price.k = "number") =>
                   IF Abs(item.quantity.n * item.unit_price.n - item.total_price.n) > 10
                   THEN Len(named) = 1 /\ named[1].severity = "warning"
                   ELSE named = <<>>

\* x or 0 for a field the claims read as a number
NumberOr0(x) == IF x.k = "number" THEN x.n ELSE 0

\* the SUMMARY_CALCULATION_ERROR issues of the summary-arithmetic rule
SummaryArithmeticIssues(issues) == SelectSeq(issues, LAMBDA i : CodeRule(i) = 11)

\* C21: when summary.subtotal, taxes and total are all numbers, the
\* summary-arithmetic rule emits a SUMMARY_CALCULATION_ERROR warning if and
\* only if |subtotal + taxes + (service_charge or 0) - (discounts or 0) - total|
\* exceeds 0.01.
C21_SummaryArithmetic ==
    (Validated /\ rec.summary.k = "object" /\ rec.summary.subtotal.k = "number"
        /\ rec.summary.taxes.k = "number" /\ rec.summary.total.k = "number") =>
        LET expected == rec.summary.subtotal.n + rec.summary.taxes.n
                            + NumberOr0(rec.summary.service_charge)
                            - NumberOr0(rec.summary.discounts)
        IN IF Abs(expected - rec.summary.total.n) > 10
           THEN /\ Len(SummaryArithmeticIssues(last.issues)) = 1
                /\ SummaryArithmeticIssues(last.issues)[1].severity = "warning"
           ELSE SummaryArithmeticIssues(last.issues) = <<>>

\* the issues of the total check of the service-charge rule: the
\* SUMMARY_CALCULATION_ERROR of that rule and the explanatory
\* SERVICE_CHARGE_CALCULATION ("appears to be included in / excluded from")
IsTotalCheckIssue(issue) ==
    \/ issue.type = "summary_calculation_error" /\ CodeRule(issue) = 15
    \/ /\ issue.type = "service_charge_calculation"
       /\ Len(issue.message) >= 3
       /\ issue.message[3].s = ") appears to be "

TotalCheckIssues(issues) == SelectSeq(issues, IsTotalCheckIssue)

\* the expected total of the claim C22: subtotal + taxes - discounts, plus the
\* service charge only when service_charge_included is exactly true
ClaimedTotalCheckExpected(r) ==
    r.summary.subtotal.n + r.summary.taxes.n - NumberOr0(r.summary.discounts)
        + (IF r.summary.service_charge_included = Bool(TRUE)
           THEN NumberOr0(r.summary.service_charge) ELSE 0)

\* a service charge exists within 0.01 of |summary.discrepancy|
ClaimedChargeExplains(r) ==
    /\ r.summary.service_charge.k = "number"
    /\ Abs(Abs(NumberOr0(r.summary.discrepancy)) - r.summary.service_charge.n) < 10

\* C22: in the total check of the service-charge rule, with subtotal, taxes
\* and total present, an expected total that differs from the total by more
\* than 0.01 gives exactly one issue, the explanatory
\* SERVICE_CHARGE_CALCULATION info when a service charge exists within 0.01 of
\* |discrepancy| and a SUMMARY_CALCULATION_ERROR warning otherwise; an expected
\* total that does not differ gives none.
C22_ServiceChargeTotalCheck ==
    (Validated /\ rec.summary.k = "object" /\ rec.summary.subtotal.k = "number"
        /\ rec.summary.taxes.k = "number" /\ rec.summary.total.k = "number") =>
        LET found == TotalCheckIssues(last.issues)
        IN IF Abs(ClaimedTotalCheckExpected(rec) - rec.summary.total.n) > 10
           THEN /\ Len(found) = 1
                /\ IF ClaimedChargeExplains(rec)
                   THEN /\ found[1].type = "service_charge_calculation"
                        /\ found[1].severity = "info"
                   ELSE /\ found[1].type = "summary_calculation_error"
                        /\ found[1].severity = "warning"
           ELSE found = <<>>

\* C23 as stated: each rule check fixes a single severity, so any two issues
\* that come from the same check carry the same severity.
C23_OneSeverityPerRule ==
    Validated =>
        \A i, j \in 1..Len(last.issues) :
            CodeRule(last.issues[i]) = CodeRule(last.issues[j])
                => last.issues[i].severity = last.issues[j].severity

\* the severity of each finding: one per check, except for the store check,
\* the card check and the service-charge check, which have two findings of
\* different severities each
ClaimedSeverity(issue) ==
    CASE CodeRule(issue) \in {1, 3, 4, 6, 7, 10, 11, 12, 14} -> "warning"
      [] CodeRule(issue) \in {2, 5, 9} -> "info"
      [] CodeRule(issue) = 16 -> "fatal"
      [] issue.type = "empty_store_name" -> "warning"
      [] issue.type = "empty_store_address" -> "info"
      [] issue.type = "card_number_format"
            /\ issue.message[Len(issue.message)].s = ") is missing card number" -> "info"
      [] issue.type = "card_number_format" -> "warning"
      [] issue.type = "service_charge_calculation" -> "info"
      [] issue.type = "summary_calculation_error" -> "warning"
      [] OTHER -> "none"

\* C23 as amended: every check emits issues of one severity only, except the
\* store check (EMPTY_STORE_NAME warning, EMPTY_STORE_ADDRESS info), the card
\* check (CARD_NUMBER_FORMAT info for a missing number, warning for a
\* malformed one) and the service-charge check (SERVICE_CHARGE_CALCULATION
\* info, SUMMARY_CALCULATION_ERROR warning); within these three the severity
\* is fixed by the finding.
C23_SeverityFixedByFinding ==
    Validated =>
        \A i \in 1..Len(last.issues) :
            last.issues[i].severity = ClaimedSeverity(last.issues[i])

\* the card check reports a missing number (info) and a malformed one
\* (warning), with the same issue type, on one receipt
C23_Witness ==
    /\ Validated
    /\ \E i, j \in 1..Len(last.issues) :
          /\ last.issues[i].type = "card_number_format"
          /\ last.issues[j].type = "card_number_format"
          /\ last.issues[i].severity = "info"
          /\ last.issues[j].severity = "warning"

\* a receipt annotated by the Calculator with discrepancy 0, with item total
\* prices that sum to the subtotal and without other charges
ReconciledByCalculator ==
    /\ Calculated
    /\ Validated
    /\ ~CalculatorSkips(before)
    /\ rec.summary.subtotal.k = "number"
    /\ ClaimedItemsSum(rec) = rec.summary.subtotal.n
    /\ (Absent(rec.summary.other_charges) \/ rec.summary.other_charges.v = <<>>)
    /\ rec.summary.discrepancy = Num(0)

NoSummaryCalculationError(issues) ==
    \A i \in 1..Len(issues) : issues[i].type # "summary_calculation_error"

AnnotatedAndComparable ==
    /\ Calculated
    /\ Validated
    /\ ~CalculatorSkips(before)
    /\ (Absent(rec.summary.other_charges) \/ rec.summary.other_charges.v = <<>>)
    /\ rec.summary.subtotal.k = "number" /\ rec.summary.subtotal.n # 0
    /\ rec.summary.taxes.k = "number" /\ rec.summary.taxes.n # 0
    /\ rec.summary.total.k = "number" /\ rec.summary.total.n # 0
    /\ ClaimedItemsSum(rec) = rec.summary.subtotal.n

\* C25 as stated: on such a receipt the total check of the service-charge
\* rule emits an issue if and only if |summary.discrepancy| > 0.01.
C25_TotalCheckIffDiscrepancy ==
    AnnotatedAndComparable =>
        (TotalCheckIssues(last.issues) # <<>> <=> Abs(rec.summary.discrepancy.n) > 10)

\* C25 as amended: on such a receipt summary.discrepancy is the difference
\* between the total and the total check's expected total rounded to two
\* decimals, and the total check emits an issue if and only if the unrounded
\* difference exceeds 0.01; so |discrepancy| > 0.01 implies an issue, and an
\* issue implies |discrepancy| >= 0.01.
C25_TotalCheckIffDifference ==
    AnnotatedAndComparable =>
        LET difference == rec.summary.total.n - ClaimedTotalCheckExpected(rec)
        IN /\ rec.summary.discrepancy = Num(ToFixed2(difference))
           /\ TotalCheckIssues(last.issues) # <<>> <=> Abs(difference) > 10
           /\ Abs(rec.summary.discrepancy.n) > 10 => TotalCheckIssues(last.issues) # <<>>
           /\ TotalCheckIssues(last.issues) # <<>> => Abs(rec.summary.discrepancy.n) >= 10

\* a difference of 0.012: the check emits, the discrepancy is 0.01
C25_Witness ==
    /\ AnnotatedAndComparable
    /\ TotalCheckIssues(last.issues) # <<>>
    /\ Abs(rec.summary.discrepancy.n) = 10

HasType(issues, type) == \E i \in 1..Len(issues) : issues[i].type = type

\* C26: no issue other than TIMESTAMP_INVALID carries severity error, and
\* validate returns valid = false only if its issue list holds a
\* TIMESTAMP_INVALID issue; arithmetic, format, duplicate, negative-amount and
\* total-floor findings leave valid true.
C26_OnlyTimestampInvalidIsError ==
    Validated =>
        /\ \A i \in 1..Len(last.issues) :
               last.issues[i].severity = "error" => last.issues[i].type = "timestamp_invalid"
        /\ ~last.valid => HasType(last.issues, "timestamp_invalid")

\* a total below the floor together with an arithmetic finding, valid still true
C26_Witness ==
    /\ Validated
    /\ last.valid
    /\ HasType(last.issues, "total_too_small")
    /\ HasType(last.issues, "summary_calculation_error")

DiscrepancyExplanations(issues) ==
    SelectSeq(issues, LAMBDA i : i.type = "discrepancy_explanation")

OtherThanDiscrepancyExplanations(issues) ==
    SelectSeq(issues, LAMBDA i : i.type # "discrepancy_explanation")

\* C27: validate emits one DISCREPANCY_EXPLANATION issue exactly when
\* summary.discrepancy is present with |discrepancy| > 1, and none otherwise;
\* the issue is a warning whose message holds a single number, so it takes
\* the full warning weight 0.1 from the confidence, whatever the discrepancy.
C27_DiscrepancyExplanationFullWeight ==
    Validated =>
        LET d == rec.summary.discrepancy
            explanations == DiscrepancyExplanations(last.issues)
        IN /\ Len(explanations) = (IF d.k = "number" /\ Abs(d.n) > Unit THEN 1 ELSE 0)
           /\ \A i \in 1..Len(explanations) :
                 /\ explanations[i].severity = "warning"
                 /\ Len(MatchDecimals(explanations[i].message)) = 1
                 /\ issueWeight(explanations[i]) = 1000
           /\ confidenceReduction(last.issues)
                 = confidenceReduction(OtherThanDiscrepancyExplanations(last.issues))
                   + 1000 * Len(explanations)

\* a discrepancy above 100 explained at the full warning weight
C27_Witness ==
    /\ Validated
    /\ Len(DiscrepancyExplanations(last.issues)) = 1
    /\ Abs(rec.summary.discrepancy.n) > 100 * Unit

\* the Authorization header is "Bearer " followed by the configured API_KEY
ExactBearerKey ==
    /\ env.API_KEY.k = "string"
    /\ authRequest.authorization = Str("Bearer " \o env.API_KEY.s)

\* C28: the handler of a route under /api/ runs only for a request whose
\* Authorization header is exactly "Bearer " followed by the configured
\* API_KEY; a request to a path under /api/ with any other header, or none,
\* is answered 401 by the middleware and no handler is invoked.
C28_ApiHandlersNeedBearerKey ==
    /\ invoked \in ApiHandlers => ExactBearerKey
    /\ (authPc = "answered" /\ UnderApi(authRequest.path) /\ ~ExactBearerKey)
          => (authResponse.status = 401 /\ invoked = "none")

\* CheckApiKey is reached with the approved key
C28_Witness ==
    /\ authPc = "answered"
    /\ invoked = "CheckApiKey"
    /\ authResponse.status = 200
    /\ ExactBearerKey

\* the method has finished, by returning or by throwing
ImageFinished == imagePc \in {"returned", "thrown"}

\* C29: when an execution of processAndUploadImage that uploaded the raw
\* image to tmp/<uuid> has finished, by returning the image path or by
\* throwing, the temporary object is no longer in the storage.
C29_NoTemporaryObjectLeft ==
    (ImageFinished /\ upload.uploadedTmp) => upload.tmpFilename \notin storage

RetryFinished == retryPc \in {"returned", "thrown"}

\* min(1000 * 2^(k-1), 10000) ms, the wait the claim C30 states for the k-th retry
ClaimedWait(k) == IF 1000 * 2 ^ (k - 1) < 10000 THEN 1000 * 2 ^ (k - 1) ELSE 10000

\* at most maxRetries + 1 = 4 attempts, none after a successful one; the value
\* of the successful attempt is returned; the error of the last attempt is
\* rethrown after maxRetries + 1 failures; the k-th retry waits ClaimedWait(k)
RetryBounds ==
    /\ Len(attempts) <= maxRetries + 1
    /\ Len(attempts) <= 4
    /\ \A i \in 1..(Len(attempts) - 1) : ~attempts[i].ok
    /\ retryPc = "returned"
          => (attempts[Len(attempts)].ok /\ outcome = attempts[Len(attempts)])
    /\ retryPc = "thrown"
          => /\ Len(attempts) = maxRetries + 1
             /\ ~attempts[Len(attempts)].ok
             /\ outcome = attempts[Len(attempts)]
    /\ RetryFinished => Len(delays) = Len(attempts) - 1
    /\ \A k \in 1..Len(delays) : delays[k] = ClaimedWait(k)

\* C30: a call of retryOperation whose attempts each come to an end
\* terminates; the operation is attempted at most maxRetries + 1 = 4 times;
\* the result of the first successful attempt is returned with no further
\* attempt; the error of the last attempt is rethrown once the retries are
\* exhausted; the wait before the k-th retry is min(1000 * 2^(k-1), 10000) ms.
C30_RetryTerminates ==
    /\ []RetryBounds
    /\ (retryPc = "attempting") ~> RetryFinished

\* three retries after waits of 1, 2 and 4 seconds, then the last error is rethrown
C30_Witness ==
    /\ retryPc = "thrown"
    /\ Len(attempts) = 4
    /\ delays = <<1000, 2000, 4000>>
    /\ outcome.error # attempts[1].error

====
